---- MODULE Spec2Model ----
(***************************************************************************)
(* binmod rust-runtime: the instance pool (binmod-core/src/pool.rs), the   *)
(* module lifecycle (module.rs), the memory bridge (memory.rs), the codec  *)
(* (input.rs, result.rs, error.rs) and the host functions (host_fns.rs).   *)
(* SpecBuilder builds a pool, Spec has NThreads callers use one,           *)
(* SpecModule follows a Module or AsyncModule and its clone from the       *)
(* builder through instantiate and calls, SpecFuel, SpecBurn and           *)
(* SpecSandbox exercise the preemption controls, SpecPack the packed       *)
(* descriptors, SpecBridge the reads and writes of guest memory, SpecCodec *)
(* the wire form of FnInput and FnResult, SpecHostFn a guest that calls a  *)
(* host function, SpecEnv the network settings of a ModuleEnv, SpecCall a  *)
(* call step by step with its guest and its upcall, SpecPublic the public  *)
(* operations of a pool with return_module and the use of a lease, and     *)
(* SpecLive lease() under fair scheduling.                                 *)
(***************************************************************************)
EXTENDS Integers, Sequences, FiniteSets, TLC

\* ------------------------------------------------------------------ bounds
\* Largest count handed to with_count.
MaxCount == 2
\* Number of concurrent callers (threads, or tasks of the cooperative pool).
NThreads == 2
\* Largest amount of fuel a caller sets (the fuel counter's range is 0..MaxFuel).
MaxFuel == 3
\* Largest epoch an engine is incremented to, and largest deadline distance.
MaxEpoch == 1
\* Width in bits of a guest pointer and of each half of a packed descriptor
\* (32 in the source; the descriptor and usize have twice this width).
PtrBits == 2
\* Size in bytes of the guest's linear memory (addresses 0..MemSize-1).
MemSize == 3
\* Largest number of positional arguments of a FnInput, and of parameters of
\* a host function.
MaxArgs == 2
\* Length in bytes a serialized message takes in the guest's memory.
MsgLen == 1

Threads == 1..NThreads

\* ------------------------------------------------------------ Option<T>
None == << >>
Some(x) == << x >>
is_some(o) == o # None
unwrap(o) == o[1]

\* ------------------------------------------------------ Result<T, E>
Ok(v) == [ok |-> TRUE, val |-> Some(v), err |-> "none"]
Err(e) == [ok |-> FALSE, val |-> None, err |-> e]

\* ------------------------------------------------------ Module, AsyncModule
\* The Option fields of Module that the pool depends on: engine (with the
\* linker), instance_pre, store and instance.  id and origin name the object.
NewModule(id, origin) ==
    [id |-> id, origin |-> origin,
     engine |-> FALSE, instance_pre |-> FALSE, store |-> FALSE, instance |-> FALSE]

is_instantiated(m) == m.instance

\* Module::clone: the shared handles are kept, store and instance are dropped.
CloneModule(m, id) ==
    [m EXCEPT !.id = id, !.origin = "clone", !.store = FALSE, !.instance = FALSE]

\* Module::instantiate.  fails: the engine, the compiler, the instantiation or
\* an initializer reports an error on this call.
instantiate(m, fails) ==
    IF is_instantiated(m) THEN Err("AlreadyInstantiated")
    ELSE IF fails THEN Err("InstantiationError")
    ELSE Ok([m EXCEPT !.engine = TRUE, !.instance_pre = TRUE,
                      !.store = TRUE, !.instance = TRUE])

\* ModuleBuilder::build / build_async: binary and name are required.
ModuleBuilderBuild(b, id) ==
    IF ~b.binary THEN Err("InvalidModuleConfig")
    ELSE IF ~b.name THEN Err("InvalidModuleConfig")
    ELSE Ok(NewModule(id, "builder"))

\* The modules a caller may pass to with_module: freshly built, a clone of an
\* instantiated module, or an instantiated module.
TemplateInputs ==
    { NewModule(0, "template"),
      [NewModule(0, "template") EXCEPT !.engine = TRUE, !.instance_pre = TRUE],
      [NewModule(0, "template") EXCEPT !.engine = TRUE, !.instance_pre = TRUE,
                                       !.store = TRUE, !.instance = TRUE] }

\* The builders a caller may pass to with_builder.
BuilderInputs == [binary : BOOLEAN, name : BOOLEAN]

\* ------------------------------------------------ pool construction
\* The outcome of a build: calls counts the instantiate calls that were made.
BuildOk(mods, calls) == [ok |-> TRUE, modules |-> mods, err |-> "none", calls |-> calls]
BuildErr(e, calls) == [ok |-> FALSE, modules |-> << >>, err |-> e, calls |-> calls]

\* (0..count-1).map(|_| template.clone().instantiate()).collect::<Result<..>>():
\* lazy, stops at the first Err.  i clones are collected in acc, calls
\* instantiate calls were made so far, the failAt-th call of the build fails.
RECURSIVE CollectClones(_, _, _, _, _, _)
CollectClones(tmpl, n, i, calls, failAt, acc) ==
    IF i >= n THEN BuildOk(acc, calls)
    ELSE LET r == instantiate(CloneModule(tmpl, i + 1), failAt = calls + 1)
         IN IF ~r.ok THEN BuildErr(r.err, calls + 1)
            ELSE CollectClones(tmpl, n, i + 1, calls + 1, failAt,
                               Append(acc, unwrap(r.val)))

\* CollectBuilt as an eager loop: every module is built and instantiated, the
\* failures are looked at afterwards.
RECURSIVE CollectBuiltEager(_, _, _, _, _, _)
CollectBuiltEager(b, n, i, calls, failAt, acc) ==
    IF i >= n
    THEN IF Len(acc) < n THEN BuildErr("InstantiationError", calls)
         ELSE BuildOk(acc, calls)
    ELSE LET m == ModuleBuilderBuild(b, i + 1)
         IN IF ~m.ok THEN BuildErr(m.err, calls)
            ELSE LET r == instantiate(unwrap(m.val), failAt = calls + 1)
                 IN CollectBuiltEager(b, n, i + 1, calls + 1, failAt,
                        IF r.ok THEN Append(acc, unwrap(r.val)) ELSE acc)

\* (0..count).map(|_| builder.clone().build()?.instantiate()).collect()
RECURSIVE CollectBuilt(_, _, _, _, _, _)
CollectBuilt(b, n, i, calls, failAt, acc) ==
    IF i >= n THEN BuildOk(acc, calls)
    ELSE LET m == ModuleBuilderBuild(b, i + 1)
         IN IF ~m.ok THEN BuildErr(m.err, calls)
            ELSE LET r == instantiate(unwrap(m.val), failAt = calls + 1)
                 IN IF ~r.ok THEN BuildErr(r.err, calls + 1)
                    ELSE CollectBuilt(b, n, i + 1, calls + 1, failAt,
                                      Append(acc, unwrap(r.val)))

\* BuildFromTemplate with the range 0..count instead of 0..count-1.
BuildFromTemplateOffByOne(tmpl, cnt, failAt) ==
    LET first == IF ~is_instantiated(tmpl) THEN instantiate(tmpl, failAt = 1)
                 ELSE Ok(tmpl)
        calls0 == IF ~is_instantiated(tmpl) THEN 1 ELSE 0
    IN IF ~first.ok THEN BuildErr(first.err, calls0)
       ELSE LET c == CollectClones(unwrap(first.val), cnt, 0, calls0, failAt, << >>)
            IN IF ~c.ok THEN c
               ELSE BuildOk(c.modules \o << unwrap(first.val) >>, c.calls)

\* The template branch of build: the template is instantiated when it is not
\* yet, count-1 clones are instantiated, and the template is chained last.
BuildFromTemplate(tmpl, cnt, failAt) ==
    LET first == IF ~is_instantiated(tmpl) THEN instantiate(tmpl, failAt = 1)
                 ELSE Ok(tmpl)
        calls0 == IF ~is_instantiated(tmpl) THEN 1 ELSE 0
    IN IF ~first.ok THEN BuildErr(first.err, calls0)
       ELSE LET c == CollectClones(unwrap(first.val), cnt - 1, 0, calls0, failAt, << >>)
            IN IF ~c.ok THEN c
               ELSE BuildOk(c.modules \o << unwrap(first.val) >>, c.calls)

\* PoolBuild without the check of count == 0.
PoolBuildNoCountCheck(tmpl, bld, cnt, failAt) ==
    IF is_some(tmpl) THEN BuildFromTemplate(unwrap(tmpl), cnt, failAt)
    ELSE IF is_some(bld) THEN CollectBuilt(unwrap(bld), cnt, 0, 0, failAt, << >>)
    ELSE BuildErr("InstantiationError: no source", 0)

\* ModulePoolBuilder::build and AsyncModulePoolBuilder::build.
PoolBuild(tmpl, bld, cnt, failAt) ==
    IF cnt = 0 THEN BuildErr("InstantiationError: count", 0)
    ELSE IF is_some(tmpl) THEN BuildFromTemplate(unwrap(tmpl), cnt, failAt)
    ELSE IF is_some(bld) THEN CollectBuilt(unwrap(bld), cnt, 0, 0, failAt, << >>)
    ELSE BuildErr("InstantiationError: no source", 0)

\* ------------------------------------------------------------ VecDeque
is_empty(q) == Len(q) = 0

\* pop_front that leaves the head in the deque (front().cloned()).
pop_front_peek(q) ==
    IF Len(q) = 0 THEN [val |-> None, rest |-> q]
    ELSE [val |-> Some(Head(q)), rest |-> q]

\* pop_front(): the head as an Option, and the deque that is left.
pop_front(q) ==
    IF Len(q) = 0 THEN [val |-> None, rest |-> q]
    ELSE [val |-> Some(Head(q)), rest |-> Tail(q)]

\* push_back replaced by push_front.
push_front(q, m) == << m >> \o q

\* push_back that loses the module.
push_lost(q, m) == q

push_back(q, m) == Append(q, m)

\* ------------------------------------------------------------------ state
VARIABLES
    variant,    \* "sync": ModulePool, "async": AsyncModulePool
    phase,      \* "builder", "pool" (build returned Ok) or "failed" (Err)
    template,   \* ModulePoolBuilder.template
    builder,    \* ModulePoolBuilder.builder
    count,      \* ModulePoolBuilder.count
    built,      \* the outcome of build: its error, its instantiate calls and
                \* which of them was made to fail (0: none)
    modules,    \* the pool's deque
    mutex,      \* the thread holding the deque's lock, 0 when free
    waiters,    \* the threads blocked in cvar.wait
    pc,         \* where each thread is
    lease,      \* each thread's ModuleLease / AsyncModuleLease
    arg,        \* the module owned by a return_module call in progress
    sc,         \* each thread's scoped call: "none", "active", "unwinding",
                \* or how it ended: "returned", "unwound", "cancelled"
    ret,        \* what each thread's last try_lease returned
    leaked,     \* ids of the instances destroyed with a lease or a future
    mbuilder,   \* the caller's ModuleBuilder
    objs,       \* the caller's module objects, None where it holds none
    epoch,      \* the epoch of each engine
    last,       \* the last operation on a module object and its result
    heap,       \* the live allocations in the guest's linear memory
    host_fn,    \* the native function the guest imports, None when none
    calls       \* the call each thread has in progress on the caller's module

vars == << variant, phase, template, builder, count, built, modules, mutex,
           waiters, pc, lease, arg, sc, ret, leaked, mbuilder, objs, epoch, last,
           heap, host_fn, calls >>

builderVars == << template, builder, count >>
poolVars == << modules, mutex, waiters, pc, lease, arg, sc, ret, leaked >>
modVars == << mbuilder, objs, epoch, last, heap, host_fn, calls >>

\* A lease object: st is its lifetime ("none": no object, "live", "dropping":
\* inside Drop::drop, "dropped"), module its Option<Module> field.  The rest
\* records its history: pushes is the number of times return_module pushed
\* its instance, rel whether release() was called on it.
NoLease == [st |-> "none", module |-> None, pushes |-> 0, rel |-> FALSE]

NewLease(m) == [st |-> "live", module |-> m, pushes |-> 0, rel |-> FALSE]
NoScoped == "none"

NoCallers ==
    /\ mutex = 0
    /\ waiters = {}
    /\ pc = [t \in Threads |-> "idle"]
    /\ lease = [t \in Threads |-> NoLease]
    /\ arg = [t \in Threads |-> None]
    /\ sc = [t \in Threads |-> NoScoped]
    /\ ret = [t \in Threads |-> "-"]
    /\ leaked = {}

\* The module objects a caller holds directly: a and b.  Engines are named
\* likewise.
Handles == {"a", "b"}
EngineIds == Handles

NoOp == [op |-> "none", h |-> "-", name |-> "-", args |-> "-", n |-> 0,
         res |-> Ok("unit"), trace |-> << >>]

\* A guest memory with nothing allocated.
NoHeap == {}

\* A thread's call on the module: where it is ("idle": no call), the
\* descriptor in hand and the bytes of the result a host function has made.
NoCall == [at |-> "idle", din |-> 0, d |-> 0, pending |-> ""]
NoCalls == [t \in Threads |-> NoCall]

\* The caller holds no module of its own besides the pool's.
NoModules ==
    /\ mbuilder = None
    /\ objs = [h \in Handles |-> None]
    /\ epoch = [e \in EngineIds |-> 0]
    /\ last = NoOp
    /\ heap = NoHeap
    /\ host_fn = None
    /\ calls = NoCalls

\* ModulePool::builder() / AsyncModulePool::builder(): ModulePoolBuilder::new
InitBuilder ==
    /\ variant \in {"sync", "async"}
    /\ phase = "builder"
    /\ template = None
    /\ builder = None
    /\ count = 0
    /\ built = [err |-> "none", calls |-> 0, failAt |-> 0]
    /\ modules = << >>
    /\ NoCallers
    /\ NoModules

\* The instantiated module the doc examples hand to with_module.
InstantiatedTemplate == unwrap(instantiate(NewModule(0, "template"), FALSE).val)

\* A pool as the doc examples build it: builder().with_module(module)
\* .with_count(n).build() with every instantiation succeeding.
Init ==
    /\ variant \in {"sync", "async"}
    /\ phase = "pool"
    /\ template = Some(InstantiatedTemplate)
    /\ builder = None
    /\ count \in 1..MaxCount
    /\ LET r == PoolBuild(template, builder, count, 0)
       IN /\ modules = r.modules
          /\ built = [err |-> r.err, calls |-> r.calls, failAt |-> 0]
    /\ NoCallers
    /\ NoModules

\* ------------------------------------------------------- builder actions
with_module ==
    /\ phase = "builder"
    /\ \E m \in TemplateInputs : template' = Some(m)
    /\ UNCHANGED << modVars, variant, phase, builder, count, built, poolVars >>

with_builder ==
    /\ phase = "builder"
    /\ \E b \in BuilderInputs : builder' = Some(b)
    /\ UNCHANGED << modVars, variant, phase, template, count, built, poolVars >>

with_count ==
    /\ phase = "builder"
    /\ \E c \in 0..MaxCount : count' = c
    /\ UNCHANGED << modVars, variant, phase, template, builder, built, poolVars >>

\* build(self): Ok(ModulePool::new(modules)) or the first error.
build ==
    /\ phase = "builder"
    /\ \E failAt \in 0..MaxCount :
         LET r == PoolBuild(template, builder, count, failAt)
         IN /\ phase' = IF r.ok THEN "pool" ELSE "failed"
            /\ modules' = r.modules
            /\ built' = [err |-> r.err, calls |-> r.calls, failAt |-> failAt]
    /\ UNCHANGED << modVars, variant, builderVars, mutex, waiters, pc, lease, arg, sc,
                    ret, leaked >>

\* ------------------------------------------------------------ the mutex
LockPcs == {"lease_lock", "lease_relock", "try_lock", "ret_lock"}

AfterLock(p) ==
    CASE p = "lease_lock" -> "lease_check"
      [] p = "lease_relock" -> "lease_check"
      [] p = "try_lock" -> "try_check"
      [] p = "ret_lock" -> "ret_push"

\* lock.lock().unwrap() / lock.lock().await, and the re-acquisition that ends
\* cvar.wait: the caller goes on once the mutex is free.
lock(t) ==
    /\ pc[t] \in LockPcs
    /\ mutex = 0
    /\ mutex' = t
    /\ pc' = [pc EXCEPT ![t] = AfterLock(pc[t])]
    /\ UNCHANGED << modVars, variant, phase, builderVars, built, modules, waiters, lease,
                    arg, sc, ret, leaked >>

\* ------------------------------------------------------------ lease()
\* A caller that holds no lease object calls pool.lease().
lease_call(t) ==
    /\ phase = "pool"
    /\ pc[t] = "idle"
    /\ lease[t].st \in {"none", "dropped"}
    /\ pc' = [pc EXCEPT ![t] = "lease_lock"]
    /\ lease' = [lease EXCEPT ![t] = NoLease]
    /\ sc' = [sc EXCEPT ![t] = NoScoped]
    /\ ret' = [ret EXCEPT ![t] = "-"]
    /\ UNCHANGED << modVars, variant, phase, builderVars, built, modules, mutex, waiters,
                    arg, leaked >>

\* lease() without its loop.
must_wait_never(q) == FALSE

\* The condition of lease()'s loop: while modules.is_empty()
must_wait(q) == is_empty(q)

\* modules = cvar.wait(modules): the mutex is released and the caller blocks.
lease_wait(t) ==
    /\ pc[t] = "lease_check"
    /\ mutex = t
    /\ must_wait(modules)
    /\ mutex' = 0
    /\ waiters' = waiters \cup {t}
    /\ pc' = [pc EXCEPT ![t] = "lease_wait"]
    /\ UNCHANGED << modVars, variant, phase, builderVars, built, modules, lease, arg, sc,
                    ret, leaked >>

\* ModuleLease { pool, module: Some(modules.pop_front().unwrap()) }; the
\* guard is dropped on return.  unwrap() of None panics.
lease_pop(t) ==
    /\ pc[t] = "lease_check"
    /\ mutex = t
    /\ ~must_wait(modules)
    /\ LET p == pop_front(modules)
       IN /\ modules' = p.rest
          /\ mutex' = 0
          /\ IF is_some(p.val)
             THEN /\ lease' = [lease EXCEPT ![t] = NewLease(p.val)]
                  /\ pc' = [pc EXCEPT ![t] =
                              IF sc[t] = "active" THEN "scoped_f" ELSE "idle"]
             ELSE /\ pc' = [pc EXCEPT ![t] = "panicked"]
                  /\ UNCHANGED lease
    /\ UNCHANGED << modVars, variant, phase, builderVars, built, waiters, arg, sc, ret, leaked >>

\* A wait may end without a notification (std::sync::Condvar::wait documents
\* spurious wakeups); the waiter then re-acquires the mutex.
spurious_wake(t) ==
    /\ t \in waiters
    /\ waiters' = waiters \ {t}
    /\ pc' = [pc EXCEPT ![t] = "lease_relock"]
    /\ UNCHANGED << modVars, variant, phase, builderVars, built, modules, mutex, lease,
                    arg, sc, ret, leaked >>

\* ------------------------------------------------------------ try_lease()
\* ModulePool only: AsyncModulePool has no try_lease.
try_lease_call(t) ==
    /\ phase = "pool"
    /\ variant = "sync"
    /\ pc[t] = "idle"
    /\ lease[t].st \in {"none", "dropped"}
    /\ pc' = [pc EXCEPT ![t] = "try_lock"]
    /\ lease' = [lease EXCEPT ![t] = NoLease]
    /\ sc' = [sc EXCEPT ![t] = NoScoped]
    /\ ret' = [ret EXCEPT ![t] = "-"]
    /\ UNCHANGED << modVars, variant, phase, builderVars, built, modules, mutex, waiters,
                    arg, leaked >>

\* try_lease without its emptiness test.
try_is_empty_never(q) == FALSE

\* The condition of try_lease: if modules.is_empty() { None }
try_is_empty(q) == is_empty(q)

try_lease_body(t) ==
    /\ pc[t] = "try_check"
    /\ mutex = t
    /\ mutex' = 0
    /\ IF try_is_empty(modules)
       THEN /\ ret' = [ret EXCEPT ![t] = "None"]
            /\ pc' = [pc EXCEPT ![t] = "idle"]
            /\ UNCHANGED << modules, lease >>
       ELSE LET p == pop_front(modules)
            IN /\ modules' = p.rest
               /\ IF is_some(p.val)
                  THEN /\ lease' = [lease EXCEPT ![t] = NewLease(p.val)]
                       /\ ret' = [ret EXCEPT ![t] = "Some"]
                       /\ pc' = [pc EXCEPT ![t] = "idle"]
                  ELSE /\ pc' = [pc EXCEPT ![t] = "panicked"]
                       /\ UNCHANGED << lease, ret >>
    /\ UNCHANGED << modVars, variant, phase, builderVars, built, waiters, arg, sc, leaked >>

\* ------------------------------------------------- release(), drop
\* take() replaced by a copy of the slot (as_ref().cloned()).
take_copy(l) == [val |-> l.module, slot |-> l.module]

\* self.module.take(): the slot's content, and the slot left empty.
take(l) == [val |-> l.module, slot |-> None]

\* Drop for every lease type.
has_drop_always(v) == TRUE

\* impl Drop for ModuleLease; AsyncModuleLease has no Drop implementation.
has_drop(v) == v = "sync"

\* lease.release(): if let Some(module) = self.module.take() the caller
\* enters return_module(module), otherwise nothing happens.
release(t) ==
    /\ pc[t] = "idle"
    /\ lease[t].st = "live"
    /\ LET k == take(lease[t])
       IN /\ lease' = [lease EXCEPT ![t].module = k.slot, ![t].rel = TRUE]
          /\ IF is_some(k.val)
             THEN /\ arg' = [arg EXCEPT ![t] = k.val]
                  /\ pc' = [pc EXCEPT ![t] = "ret_lock"]
             ELSE UNCHANGED << arg, pc >>
    /\ UNCHANGED << modVars, variant, phase, builderVars, built, modules, mutex, waiters,
                    sc, ret, leaked >>

\* The lease goes out of scope.  ModuleLease: Drop::drop calls release().
\* AsyncModuleLease has no Drop: its module field is dropped with it.
drop_lease(t) ==
    /\ pc[t] = "idle"
    /\ lease[t].st = "live"
    /\ IF has_drop(variant)
       THEN LET k == take(lease[t])
            IN IF is_some(k.val)
               THEN /\ lease' = [lease EXCEPT ![t].module = k.slot, ![t].st = "dropping"]
                    /\ arg' = [arg EXCEPT ![t] = k.val]
                    /\ pc' = [pc EXCEPT ![t] = "ret_lock"]
                    /\ UNCHANGED leaked
               ELSE /\ lease' = [lease EXCEPT ![t].module = k.slot, ![t].st = "dropped"]
                    /\ UNCHANGED << arg, pc, leaked >>
       ELSE /\ lease' = [lease EXCEPT ![t].module = None, ![t].st = "dropped"]
            /\ leaked' = IF is_some(lease[t].module)
                         THEN leaked \cup {unwrap(lease[t].module).id} ELSE leaked
            /\ UNCHANGED << arg, pc >>
    /\ UNCHANGED << modVars, variant, phase, builderVars, built, modules, mutex, waiters,
                    sc, ret >>

\* notify_all in the place of notify_one.
notify_all(w) == {}

\* notify_one that wakes nobody.
notify_nobody == {0}

\* cvar.notify_one(): one blocked waiter, if any, is woken.
Notified(w) == IF w = 0 THEN waiters ELSE waiters \ {w}
NotifyChoices == IF waiters = {} THEN {0} ELSE waiters

\* return_module, under the lock: modules.push_back(module); cvar.notify_one();
\* the guard is dropped on return.  The release() or drop that called it, and
\* the scoped call that called release(), end with it.
return_push(t) ==
    /\ pc[t] = "ret_push"
    /\ mutex = t
    /\ modules' = push_back(modules, unwrap(arg[t]))
    /\ mutex' = 0
    /\ arg' = [arg EXCEPT ![t] = None]
    /\ \E w \in NotifyChoices :
         /\ waiters' = Notified(w)
         /\ pc' = [p \in Threads |->
                     IF p = t THEN "idle"
                     ELSE IF p = w THEN "lease_relock" ELSE pc[p]]
    /\ lease' = [lease EXCEPT ![t].pushes = @ + 1,
                              ![t].st = IF @ = "dropping" \/ sc[t] # "none"
                                        THEN "dropped" ELSE @]
    /\ sc' = [sc EXCEPT ![t] = CASE @ = "active" -> "returned"
                                 [] @ = "unwinding" -> "unwound"
                                 [] OTHER -> @]
    /\ UNCHANGED << modVars, variant, phase, builderVars, built, ret, leaked >>

\* ------------------------------------------------------------ scoped(f)
\* let mut lease = self.lease();
scoped_call(t) ==
    /\ phase = "pool"
    /\ pc[t] = "idle"
    /\ lease[t].st \in {"none", "dropped"}
    /\ pc' = [pc EXCEPT ![t] = "lease_lock"]
    /\ lease' = [lease EXCEPT ![t] = NoLease]
    /\ sc' = [sc EXCEPT ![t] = "active"]
    /\ ret' = [ret EXCEPT ![t] = "-"]
    /\ UNCHANGED << modVars, variant, phase, builderVars, built, modules, mutex, waiters,
                    arg, leaked >>

\* f returned: lease.release(); result
scoped_f_return(t) ==
    /\ pc[t] = "scoped_f"
    /\ LET k == take(lease[t])
       IN /\ lease' = [lease EXCEPT ![t].module = k.slot, ![t].rel = TRUE]
          /\ IF is_some(k.val)
             THEN /\ arg' = [arg EXCEPT ![t] = k.val]
                  /\ pc' = [pc EXCEPT ![t] = "ret_lock"]
                  /\ UNCHANGED sc
             ELSE /\ pc' = [pc EXCEPT ![t] = "idle"]
                  /\ sc' = [sc EXCEPT ![t] = "returned"]
                  /\ UNCHANGED arg
    /\ UNCHANGED << modVars, variant, phase, builderVars, built, modules, mutex, waiters,
                    ret, leaked >>

\* f panicked: the unwinding drops `lease`.  ModuleLease::drop releases it;
\* AsyncModuleLease has no Drop, its module is dropped with it.
scoped_f_unwind(t) ==
    /\ pc[t] = "scoped_f"
    /\ IF has_drop(variant)
       THEN LET k == take(lease[t])
            IN /\ lease' = [lease EXCEPT ![t].module = k.slot, ![t].st = "dropping"]
               /\ arg' = [arg EXCEPT ![t] = k.val]
               /\ pc' = [pc EXCEPT ![t] = "ret_lock"]
               /\ sc' = [sc EXCEPT ![t] = "unwinding"]
               /\ UNCHANGED leaked
       ELSE /\ lease' = [lease EXCEPT ![t].module = None, ![t].st = "dropped"]
            /\ leaked' = leaked \cup {unwrap(lease[t].module).id}
            /\ pc' = [pc EXCEPT ![t] = "idle"]
            /\ sc' = [sc EXCEPT ![t] = "unwound"]
            /\ UNCHANGED arg
    /\ UNCHANGED << modVars, variant, phase, builderVars, built, modules, mutex, waiters, ret >>

\* ------------------------------------------------- dropping a future
\* AsyncModulePool only: the future of lease(), release() or scoped() is
\* dropped at one of its await points (lock().await, cvar.wait().await, the
\* await of f's future).  What the future owns is dropped with it.
AwaitPcs == {"lease_lock", "lease_wait", "lease_relock", "scoped_f", "ret_lock"}

cancel(t) ==
    /\ variant = "async"
    /\ pc[t] \in AwaitPcs
    /\ pc' = [pc EXCEPT ![t] = "idle"]
    /\ waiters' = waiters \ {t}
    /\ arg' = [arg EXCEPT ![t] = None]
    /\ leaked' = leaked
                 \cup (IF pc[t] = "ret_lock" THEN {unwrap(arg[t]).id} ELSE {})
                 \cup (IF pc[t] = "scoped_f" THEN {unwrap(lease[t].module).id} ELSE {})
    /\ lease' = [lease EXCEPT ![t] =
                   IF sc[t] = "active" /\ @.st = "live"
                   THEN [@ EXCEPT !.module = None, !.st = "dropped"] ELSE @]
    /\ sc' = [sc EXCEPT ![t] = IF @ = "active" THEN "cancelled" ELSE @]
    /\ UNCHANGED << modVars, variant, phase, builderVars, built, modules, mutex, ret >>

\* ------------------------------------------------------------ specification
NextBuilder ==
    \/ with_module
    \/ with_builder
    \/ with_count
    \/ build

SpecBuilder == InitBuilder /\ [][NextBuilder]_vars

Next ==
    \/ \E t \in Threads : lock(t)
    \/ \E t \in Threads : lease_call(t)
    \/ \E t \in Threads : lease_wait(t)
    \/ \E t \in Threads : lease_pop(t)
    \/ \E t \in Threads : spurious_wake(t)
    \/ \E t \in Threads : try_lease_call(t)
    \/ \E t \in Threads : try_lease_body(t)
    \/ \E t \in Threads : release(t)
    \/ \E t \in Threads : drop_lease(t)
    \/ \E t \in Threads : return_push(t)
    \/ \E t \in Threads : scoped_call(t)
    \/ \E t \in Threads : scoped_f_return(t)
    \/ \E t \in Threads : scoped_f_unwind(t)
    \/ \E t \in Threads : cancel(t)

Spec == Init /\ [][Next]_vars

\* ------------------------------------------------------------ typing
TypeOK ==
    /\ variant \in {"sync", "async"}
    /\ phase \in {"builder", "pool", "failed", "module", "memory"}
    /\ count \in 0..MaxCount
    /\ mutex \in 0..NThreads
    /\ waiters \subseteq Threads
    /\ \A t \in Threads :
         /\ pc[t] \in {"idle", "lease_lock", "lease_check", "lease_wait", "lease_relock",
                       "try_lock", "try_check", "ret_lock", "ret_push", "scoped_f"}
         /\ lease[t].st \in {"none", "live", "dropping", "dropped"}
         /\ Len(lease[t].module) <= 1
         /\ Len(arg[t]) <= 1

\* ============================================================ module.rs
\* The lifecycle of one Module / AsyncModule object in full: the builder, the
\* Option fields, the store's fuel and epoch deadline, the engine's epoch, and
\* the guest-side events of every operation.  (The pool sections above use the
\* projection of a module to its four Option fields.)  variant says whether
\* the objects are Modules ("sync") or AsyncModules ("async").

\* ------------------------------------------------------------ the guest
\* The exports the marshalling ABI needs.
MemoryAbi == {"memory", "guest_alloc", "guest_dealloc"}

\* A binary is known by its exports.  Every guest exports f with the ABI type
\* (u32, u32) -> u64; it may export the three ABI items, _initialize and
\* initialize.
GuestInputs ==
    { [exports |-> {"f"} \cup abi \cup r \cup i] :
        abi \in {{}, MemoryAbi}, r \in {{}, {"_initialize"}}, i \in {{}, {"initialize"}} }

\* The exports that get_typed_func::<(u32, u32), u64> accepts.
AbiFuncs(g) == g.exports \cap {"f", "initialize"}

\* A guest with everything.
FullGuest == [exports |-> {"f", "_initialize", "initialize"} \cup MemoryAbi]

\* What the guest does during one operation: the outcome of guest_alloc, of
\* _initialize, of the called function and of guest_dealloc.  An operation
\* ends at the first thing that goes wrong, so the behaviours with at most one
\* fault cover every path.
Behaviour(alloc, init, fn, dealloc) ==
    [alloc |-> alloc, init |-> init, fn |-> fn, dealloc |-> dealloc]

GuestBehaviours ==
    { Behaviour("ok", "ok", fn, "ok") :
        fn \in {"data_null", "data", "error", "trap", "null", "oob", "garbage"} }
    \cup { Behaviour(a, "ok", "data_null", "ok") : a \in {"trap", "oob"} }
    \cup { Behaviour("ok", "trap", "data_null", "ok"),
           Behaviour("ok", "ok", "data_null", "trap") }

\* The fuel one invocation of guest code costs.
InvocationCost == 1

\* ------------------------------------------------------------ ModuleBuilder
\* The builders of the lifecycle scenarios: every combination of a missing
\* binary, name and namespace for one guest, and every guest for a complete
\* builder.
ModuleBuilderInputs ==
    [binary : {None, Some(FullGuest)}, name : {None, Some("m")},
     namespace : {None, Some("ns")}, config : {None}, fuel_yield_interval : {None}]
    \cup
    [binary : { Some(g) : g \in GuestInputs }, name : {Some("m")},
     namespace : {None}, config : {None}, fuel_yield_interval : {None}]

\* ModuleConfig, as far as preemption goes.
ModuleConfig(consume_fuel, epoch_interruption) ==
    [consume_fuel |-> consume_fuel, epoch_interruption |-> epoch_interruption]

\* A guest with the ABI exports and no initializer.
PlainGuest == [exports |-> {"f"} \cup MemoryAbi]

\* The builders of the preemption scenarios: fuel consumption left at its
\* default (off) or switched on.
FuelBuilderInputs ==
    [binary : {Some(PlainGuest)}, name : {Some("m")}, namespace : {None},
     config : {None, Some(ModuleConfig(TRUE, FALSE))}, fuel_yield_interval : {None}]

\* The builders of the fuel-budget scenarios: fuel consumption off or on, and
\* with_fuel_yield_interval called or not.
BurnBuilderInputs ==
    [binary : {Some(PlainGuest)}, name : {Some("m")}, namespace : {None},
     config : {None, Some(ModuleConfig(TRUE, FALSE))},
     fuel_yield_interval : {None, Some(1)}]

\* The builders of the two-instance scenarios: epoch interruption on, with
\* fuel consumption off or on.
SandboxBuilderInputs ==
    [binary : {Some(PlainGuest)}, name : {Some("m")}, namespace : {None},
     config : {Some(ModuleConfig(FALSE, TRUE)), Some(ModuleConfig(TRUE, TRUE))},
     fuel_yield_interval : {None}]

\* ModuleConfig::default(): neither fuel consumption nor epoch interruption.
ModuleConfig_default == ModuleConfig(FALSE, FALSE)

\* unwrap_or
unwrap_or(o, d) == IF is_some(o) THEN unwrap(o) ELSE d

\* Module::new, AsyncModule::new.  fuel_yield_interval is a field of
\* AsyncModule alone; a Module never reads it.
Module_new(binary, name, namespace, config, fuel_yield_interval) ==
    [name |-> name, namespace |-> namespace, binary |-> binary, config |-> config,
     fuel_yield_interval |-> fuel_yield_interval, engine |-> None, store |-> None, linker |-> FALSE, instance_pre |-> FALSE,
     instance |-> FALSE]

\* build with the name never checked.
ModuleBuilder_build_unchecked(b) ==
    IF ~is_some(b.binary) THEN Err("InvalidModuleConfig: Binary not provided")
    ELSE Ok(Module_new(unwrap(b.binary), unwrap_or(b.name, ""),
                       unwrap_or(b.namespace, ""),
                       unwrap_or(b.config, ModuleConfig_default),
                       b.fuel_yield_interval))

\* ModuleBuilder::build and build_async
ModuleBuilder_build(b) ==
    IF ~is_some(b.binary) THEN Err("InvalidModuleConfig: Binary not provided")
    ELSE IF ~is_some(b.name) THEN Err("InvalidModuleConfig: Name not provided")
    ELSE Ok(Module_new(unwrap(b.binary), unwrap(b.name),
                       unwrap_or(b.namespace, "env"),
                       unwrap_or(b.config, ModuleConfig_default),
                       b.fuel_yield_interval))

\* ------------------------------------------------------------ Module
Module_is_instantiated(m) == m.instance

\* A clone that copies the store and the instance as well.
Module_clone_all(m) == m

\* impl Clone for Module / AsyncModule
Module_clone(m) == [m EXCEPT !.store = None, !.instance = FALSE]

\* ------------------------------------------------------------ engine, store
\* An engine whose fuel is on whatever the config says.
EngineConfigFuelOn(v, m) ==
    [consume_fuel |-> TRUE, epoch_interruption |-> m.config.epoch_interruption]

\* The engine's configuration: self.config, and for an AsyncModule
\* config.consume_fuel(true) on top of it.
EngineConfig(v, m) ==
    [consume_fuel |-> (v = "async") \/ m.config.consume_fuel,
     epoch_interruption |-> m.config.epoch_interruption]

\* u64::MAX: the top of the fuel counter, above every amount a caller sets.
\* It stands for all the amounts above MaxFuel: taking a cost from it leaves it.
U64_MAX == MaxFuel + 1

\* Store::new: no fuel, epoch deadline 0, no fuel-yield interval.
Store_new == [fuel |-> 0, deadline |-> 0, yield_interval |-> None]

\* Store::set_fuel, Store::get_fuel: an error unless the engine consumes fuel.
Store_set_fuel(eng, st, fuel) ==
    IF eng.consume_fuel THEN Ok([st EXCEPT !.fuel = fuel]) ELSE Err("fuel is not configured")

Store_get_fuel(eng, st) ==
    IF eng.consume_fuel THEN Ok(st.fuel) ELSE Err("fuel is not configured")

\* The epoch of the engine m holds (0 when it holds none).
EpochOf(m) == IF is_some(m.engine) THEN epoch[unwrap(m.engine).id] ELSE 0

\* Guest code that runs whatever the fuel and the epoch.
guest_run_unmetered(m, traps, cost) == [trap |-> traps, m |-> m]

\* One invocation of guest code in m's store.  With fuel on it traps when
\* the fuel left does not cover its cost (a store with no fuel traps at
\* once); with epoch interruption on it traps on entry when the engine's
\* epoch has reached the store's deadline; traps says whether the guest code
\* traps by itself.
guest_run(m, traps, cost) ==
    LET st == unwrap(m.store)
        fuelOn == unwrap(m.engine).consume_fuel
    IN IF fuelOn /\ st.fuel < cost
       THEN [trap |-> TRUE, m |-> [m EXCEPT !.store = Some([st EXCEPT !.fuel = 0])]]
       ELSE IF unwrap(m.engine).epoch_interruption /\ EpochOf(m) >= st.deadline
       THEN [trap |-> TRUE, m |-> m]
       ELSE [trap |-> traps,
             m |-> IF fuelOn /\ st.fuel # U64_MAX
                   THEN [m EXCEPT !.store = Some([st EXCEPT !.fuel = @ - cost])]
                   ELSE m]

\* The fuel-yield interval of a cooperative store when the builder set none.
DefaultYieldInterval == 10000

\* An interval that is the default whatever the builder set.
fuel_async_yield_interval_fixed(st, m) ==
    [st EXCEPT !.yield_interval = Some(DefaultYieldInterval)]

\* store.fuel_async_yield_interval(Some(self.fuel_yield_interval.unwrap_or(10000)))
fuel_async_yield_interval(st, m) ==
    [st EXCEPT !.yield_interval =
        Some(unwrap_or(m.fuel_yield_interval, DefaultYieldInterval))]

\* ------------------------------------------------------------ call
\* The outcome of an operation on a module: the result, the module after it,
\* and the guest-side events it caused, in order.
Outcome(res, m, trace) == [res |-> res, m |-> m, trace |-> trace]

\* from_instance that finds its exports in every guest.
from_instance_lenient(g) == Ok("MemoryOps")

\* MemoryOps::from_instance / AsyncMemoryOps::from_instance
from_instance(g) ==
    IF MemoryAbi \subseteq g.exports THEN Ok("MemoryOps") ELSE Err("MemoryError")

\* get_typed_func whose error is passed on as it is.
get_typed_func_unmapped(g, name) ==
    IF name \in AbiFuncs(g) THEN Ok(name) ELSE Err("WasmtimeError")

\* instance.get_typed_func::<(u32, u32), u64>(name).map_err(FunctionNotFound)
get_typed_func(g, name) ==
    IF name \in AbiFuncs(g) THEN Ok(name) ELSE Err("FunctionNotFound: " \o name)

\* The FnResult the guest's bytes decode to.
FnResultOf(fn) ==
    CASE fn = "data_null" -> [object |-> "data", value |-> "null"]
      [] fn = "data" -> [object |-> "data", value |-> "7"]
      [] fn = "error" -> [object |-> "error", value |-> "FnError"]

\* Module::call / AsyncModule::call.  tr: the events before the call.
Module_call(m, name, beh, tr) ==
    IF ~is_some(m.store) THEN Outcome(Err("NotInstantiated"), m, tr)
    ELSE IF ~m.instance THEN Outcome(Err("NotInstantiated"), m, tr)
    ELSE IF ~from_instance(m.binary).ok THEN Outcome(from_instance(m.binary), m, tr)
    ELSE IF ~get_typed_func(m.binary, name).ok
         THEN Outcome(get_typed_func(m.binary, name), m, tr)
    ELSE \* memory.write: guest_alloc, then the copy into guest memory
    LET a == guest_run(m, beh.alloc = "trap", InvocationCost)
        tr1 == tr \o << "guest_alloc" >>
    IN IF a.trap THEN Outcome(Err("MemoryError"), a.m, tr1)
       ELSE IF beh.alloc = "oob" THEN Outcome(Err("MemoryError"), a.m, tr1)
       ELSE \* func.call
       LET f == guest_run(a.m, beh.fn = "trap", InvocationCost)
           tr2 == tr1 \o << "write", name >>
       IN IF f.trap THEN Outcome(Err("WasmtimeError"), f.m, tr2)
          ELSE \* memory.read: the null check, the copy out, guest_dealloc
          IF beh.fn = "null" THEN Outcome(Err("MemoryError"), f.m, tr2)
          ELSE IF beh.fn = "oob" THEN Outcome(Err("MemoryError"), f.m, tr2)
          ELSE
          LET d == guest_run(f.m, beh.dealloc = "trap", InvocationCost)
              tr3 == tr2 \o << "read", "guest_dealloc" >>
          IN IF d.trap THEN Outcome(Err("MemoryError"), d.m, tr3)
             ELSE IF beh.fn = "garbage"
                  THEN Outcome(Err("FunctionError: DeserializationError"), d.m, tr3)
             ELSE Outcome(Ok(FnResultOf(beh.fn)), d.m, tr3)

\* The argument tuples of typed_call: one that converts (() always does), and
\* one with an element whose Serialize fails.
ArgInputs == {"ok", "bad"}

\* IntoFnInput::into_fn_input
into_fn_input(args) ==
    IF args = "bad" THEN Err("FunctionError: SerializationError") ELSE Ok("FnInput")

\* The result types R of typed_call::<R>.
ResultTypes == {"unit", "int"}

\* FnResult::into_result::<R>
into_result(fr, R) ==
    IF fr.object = "error" THEN Err("FunctionError: guest")
    ELSE IF (R = "unit") = (fr.value = "null") THEN Ok(fr.value)
    ELSE Err("FunctionError: DeserializationError")

\* typed_call that converts its arguments after the call had its say.
Module_typed_call_args_last(m, name, args, R, beh, tr) ==
    LET c == Module_call(m, name, beh, tr)
    IN IF ~c.res.ok THEN c
       ELSE IF ~into_fn_input(args).ok THEN Outcome(into_fn_input(args), c.m, c.trace)
       ELSE Outcome(into_result(unwrap(c.res.val), R), c.m, c.trace)

\* Module::typed_call / AsyncModule::typed_call: the argument of call is
\* evaluated first.
Module_typed_call(m, name, args, R, beh, tr) ==
    IF ~into_fn_input(args).ok THEN Outcome(into_fn_input(args), m, tr)
    ELSE LET c == Module_call(m, name, beh, tr)
         IN IF ~c.res.ok THEN c
            ELSE Outcome(into_result(unwrap(c.res.val), R), c.m, c.trace)

\* ------------------------------------------------------------ instantiate
\* What may go wrong in the engine during instantiate.
EngineFailures == {"none", "engine", "compile", "instance"}

\* The initializers in the other order.
run_initializers_swapped(m, beh, tr) ==
    LET t == Module_typed_call(m, "initialize", "ok", "unit", beh, tr)
        bad == ~t.res.ok /\ t.res.err # "FunctionNotFound: initialize"
    IN IF bad THEN Outcome(t.res, None, t.trace)
       ELSE IF "_initialize" \in m.binary.exports
       THEN LET r == guest_run(t.m, beh.init = "trap", InvocationCost)
            IN IF r.trap
               THEN Outcome(Err("InstantiationError"), None, t.trace \o << "_initialize" >>)
               ELSE Outcome(Ok("instantiated"), Some(r.m), t.trace \o << "_initialize" >>)
       ELSE Outcome(Ok("instantiated"), Some(t.m), t.trace)

\* The end of instantiate: _initialize, if exported, through the engine, then
\* typed_call::<()>("initialize", ()), whose FunctionNotFound is dropped.  The
\* module is moved into the Ok, and dropped with an Err.
run_initializers(m, beh, tr) ==
    LET r == IF "_initialize" \in m.binary.exports
             THEN guest_run(m, beh.init = "trap", InvocationCost)
             ELSE [trap |-> FALSE, m |-> m]
        tr1 == IF "_initialize" \in m.binary.exports THEN tr \o << "_initialize" >> ELSE tr
    IN IF r.trap THEN Outcome(Err("InstantiationError"), None, tr1)
       ELSE LET t == Module_typed_call(r.m, "initialize", "ok", "unit", beh, tr1)
            IN IF ~t.res.ok /\ t.res.err # "FunctionNotFound: initialize"
               THEN Outcome(t.res, None, t.trace)
               ELSE Outcome(Ok("instantiated"), Some(t.m), t.trace)

\* Module::instantiate / AsyncModule::instantiate (self by value).  eid: the
\* identity of the engine, should one be created.
Module_instantiate(v, m, eid, fail, beh) ==
    IF Module_is_instantiated(m) THEN Outcome(Err("AlreadyInstantiated"), None, << >>)
    ELSE IF ~is_some(m.engine) /\ fail = "engine"
         THEN Outcome(Err("WasmtimeError"), None, << >>)
    ELSE
    LET m1 == IF ~is_some(m.engine)
              THEN [m EXCEPT !.engine = Some([id |-> eid,
                                              consume_fuel |-> EngineConfig(v, m).consume_fuel,
                                              epoch_interruption |->
                                                  EngineConfig(v, m).epoch_interruption]),
                             !.linker = TRUE]
              ELSE m
        tr1 == IF ~is_some(m.engine) THEN << "Engine::new" >> ELSE << >>
    IN IF ~m1.instance_pre /\ fail = "compile"
       THEN Outcome(Err("InstantiationError"), None, tr1)
       ELSE
       LET m2 == [m1 EXCEPT !.instance_pre = TRUE]
           tr2 == IF ~m1.instance_pre THEN tr1 \o << "from_binary" >> ELSE tr1
           set == Store_set_fuel(unwrap(m2.engine), Store_new, U64_MAX)
           fueled == IF v = "async"
                     THEN IF set.ok THEN Ok(fuel_async_yield_interval(unwrap(set.val), m2))
                          ELSE set
                     ELSE Ok(Store_new)
       IN IF ~fueled.ok THEN Outcome(Err("FuelNotEnabled"), None, tr2)
          ELSE IF fail = "instance" THEN Outcome(Err("InstantiationError"), None, tr2)
          ELSE run_initializers([m2 EXCEPT !.instance = TRUE, !.store = fueled.val],
                                beh, tr2 \o << "instantiate" >>)

\* ------------------------------------------------------------ preemption
\* Module::set_fuel / AsyncModule::set_fuel
Module_set_fuel(m, fuel) ==
    IF ~is_some(m.store) THEN Outcome(Err("NotInstantiated"), m, << >>)
    ELSE LET r == Store_set_fuel(unwrap(m.engine), unwrap(m.store), fuel)
         IN IF ~r.ok THEN Outcome(Err("FuelNotEnabled"), m, << >>)
            ELSE Outcome(Ok("unit"), [m EXCEPT !.store = r.val], << >>)

\* Module::get_fuel / AsyncModule::get_fuel
Module_get_fuel(m) ==
    IF ~is_some(m.store) THEN Outcome(Err("NotInstantiated"), m, << >>)
    ELSE LET r == Store_get_fuel(unwrap(m.engine), unwrap(m.store))
         IN IF ~r.ok THEN Outcome(Err("FuelNotEnabled"), m, << >>)
            ELSE Outcome(Ok(unwrap(r.val)), m, << >>)

\* Module::set_epoch_deadline: the deadline is ticks beyond the engine's
\* current epoch.
Module_set_epoch_deadline(m, now, ticks) ==
    IF ~is_some(m.store) THEN Outcome(Err("NotInstantiated"), m, << >>)
    ELSE Outcome(Ok("unit"),
                 [m EXCEPT !.store = Some([unwrap(m.store) EXCEPT !.deadline = now + ticks])],
                 << >>)

\* Module::increment_epoch: Err when the module has no engine, else Ok after
\* Engine::increment_epoch.
Module_increment_epoch(m) ==
    IF ~is_some(m.engine) THEN Err("NotInstantiated") ELSE Ok("unit")

\* ------------------------------------------------------------ module actions
\* The identity a new engine gets: one that no live module holds.
FreshEngine ==
    CHOOSE e \in EngineIds :
        \A h \in Handles :
            is_some(objs[h]) /\ is_some(unwrap(objs[h]).engine)
                => unwrap(unwrap(objs[h]).engine).id # e

\* The record of an operation: which one, on which object, with which
\* function name, argument tuple and number, its result and its guest-side
\* events.
Op(op, h, name, args, n, res, trace) ==
    [op |-> op, h |-> h, name |-> name, args |-> args, n |-> n, res |-> res,
     trace |-> trace]

\* let h = builder.clone().build() / build_async()
module_build(h) ==
    /\ phase = "module"
    /\ objs[h] = None
    /\ LET r == ModuleBuilder_build(mbuilder)
       IN /\ objs' = [objs EXCEPT ![h] = r.val]
          /\ last' = Op("build", h, "-", "-", 0, IF r.ok THEN Ok("module") ELSE r, << >>)
    /\ UNCHANGED << calls, host_fn, heap, mbuilder, epoch, variant, phase, builderVars,
                    built, poolVars >>

\* let g = h.clone()
module_clone(h, g) ==
    /\ phase = "module"
    /\ is_some(objs[h])
    /\ objs[g] = None
    /\ objs' = [objs EXCEPT ![g] = Some(Module_clone(unwrap(objs[h])))]
    /\ last' = Op("clone", g, "-", "-", 0, Ok("module"), << >>)
    /\ UNCHANGED << calls, host_fn, heap, mbuilder, epoch, variant, phase, builderVars,
                    built, poolVars >>

\* h.instantiate(): h is moved into the call; the caller has the module
\* again only through the Ok.
module_instantiate(h) ==
    /\ phase = "module"
    /\ is_some(objs[h])
    /\ \E fail \in EngineFailures, beh \in GuestBehaviours :
         LET m == unwrap(objs[h])
             o == Module_instantiate(variant, m, FreshEngine, fail, beh)
         IN /\ objs' = [objs EXCEPT ![h] = o.m]
            /\ epoch' = IF ~is_some(m.engine) /\ is_some(o.m)
                        THEN [epoch EXCEPT ![FreshEngine] = 0] ELSE epoch
            /\ last' = Op("instantiate", h, "-", "-", 0, o.res, o.trace)
    /\ UNCHANGED << calls, host_fn, heap, mbuilder, variant, phase, builderVars, built, poolVars >>

\* The function names the caller uses: f and a name that no guest exports.
NameInputs == {"f", "nope"}

\* h.call(name, input)
module_call(h) ==
    /\ phase = "module"
    /\ is_some(objs[h])
    /\ \E name \in NameInputs, beh \in GuestBehaviours :
         LET o == Module_call(unwrap(objs[h]), name, beh, << >>)
         IN /\ objs' = [objs EXCEPT ![h] = Some(o.m)]
            /\ last' = Op("call", h, name, "-", 0, o.res, o.trace)
    /\ UNCHANGED << calls, host_fn, heap, mbuilder, epoch, variant, phase, builderVars,
                    built, poolVars >>

\* h.typed_call::<R>(name, args)
module_typed_call(h) ==
    /\ phase = "module"
    /\ is_some(objs[h])
    /\ \E name \in NameInputs, args \in ArgInputs, R \in ResultTypes,
          beh \in GuestBehaviours :
         LET o == Module_typed_call(unwrap(objs[h]), name, args, R, beh, << >>)
         IN /\ objs' = [objs EXCEPT ![h] = Some(o.m)]
            /\ last' = Op("typed_call", h, name, args, 0, o.res, o.trace)
    /\ UNCHANGED << calls, host_fn, heap, mbuilder, epoch, variant, phase, builderVars,
                    built, poolVars >>

\* h.set_fuel(fuel)
module_set_fuel(h) ==
    /\ phase = "module"
    /\ is_some(objs[h])
    /\ \E fuel \in 0..MaxFuel :
         LET o == Module_set_fuel(unwrap(objs[h]), fuel)
         IN /\ objs' = [objs EXCEPT ![h] = Some(o.m)]
            /\ last' = Op("set_fuel", h, "-", "-", fuel, o.res, o.trace)
    /\ UNCHANGED << calls, host_fn, heap, mbuilder, epoch, variant, phase, builderVars,
                    built, poolVars >>

\* h.get_fuel()
module_get_fuel(h) ==
    /\ phase = "module"
    /\ is_some(objs[h])
    /\ LET o == Module_get_fuel(unwrap(objs[h]))
       IN /\ objs' = [objs EXCEPT ![h] = Some(o.m)]
          /\ last' = Op("get_fuel", h, "-", "-", 0, o.res, o.trace)
    /\ UNCHANGED << calls, host_fn, heap, mbuilder, epoch, variant, phase, builderVars,
                    built, poolVars >>

\* h.set_epoch_deadline(ticks)
module_set_epoch_deadline(h) ==
    /\ phase = "module"
    /\ is_some(objs[h])
    /\ \E ticks \in 0..MaxEpoch :
         LET m == unwrap(objs[h])
             o == Module_set_epoch_deadline(m, EpochOf(m), ticks)
         IN /\ objs' = [objs EXCEPT ![h] = Some(o.m)]
            /\ last' = Op("set_epoch_deadline", h, "-", "-", ticks, o.res, o.trace)
    /\ UNCHANGED << calls, host_fn, heap, mbuilder, epoch, variant, phase, builderVars,
                    built, poolVars >>

\* h.increment_epoch(): the epoch is the engine's, shared by all its holders.
module_increment_epoch(h) ==
    /\ phase = "module"
    /\ is_some(objs[h])
    /\ LET m == unwrap(objs[h])
           r == Module_increment_epoch(m)
       IN /\ r.ok => EpochOf(m) < MaxEpoch
          /\ epoch' = IF r.ok THEN [epoch EXCEPT ![unwrap(m.engine).id] = @ + 1]
                      ELSE epoch
          /\ last' = Op("increment_epoch", h, "-", "-", 0, r, << >>)
    /\ UNCHANGED << calls, host_fn, heap, mbuilder, objs, variant, phase, builderVars,
                    built, poolVars >>

\* The caller drops h.
module_drop(h) ==
    /\ phase = "module"
    /\ is_some(objs[h])
    /\ objs' = [objs EXCEPT ![h] = None]
    /\ last' = Op("drop", h, "-", "-", 0, Ok("unit"), << >>)
    /\ UNCHANGED << calls, host_fn, heap, mbuilder, epoch, variant, phase, builderVars,
                    built, poolVars >>

\* A caller with a ModuleBuilder and no module yet.
InitModule ==
    /\ variant \in {"sync", "async"}
    /\ phase = "module"
    /\ template = None
    /\ builder = None
    /\ count = 0
    /\ built = [err |-> "none", calls |-> 0, failAt |-> 0]
    /\ modules = << >>
    /\ NoCallers
    /\ mbuilder \in ModuleBuilderInputs
    /\ objs = [h \in Handles |-> None]
    /\ epoch = [e \in EngineIds |-> 0]
    /\ last = NoOp
    /\ heap = NoHeap
    /\ host_fn = None
    /\ calls = NoCalls

\* The lifecycle of a module and its clone: a is built, b is a's clone.
NextModule ==
    \/ module_build("a")
    \/ module_clone("a", "b")
    \/ \E h \in Handles : module_instantiate(h)
    \/ \E h \in Handles : module_call(h)
    \/ \E h \in Handles : module_typed_call(h)
    \/ \E h \in Handles : module_drop(h)

SpecModule == InitModule /\ [][NextModule]_vars

\* A caller about to use the preemption controls.
InitFuel ==
    /\ variant \in {"sync", "async"}
    /\ phase = "module"
    /\ template = None
    /\ builder = None
    /\ count = 0
    /\ built = [err |-> "none", calls |-> 0, failAt |-> 0]
    /\ modules = << >>
    /\ NoCallers
    /\ mbuilder \in FuelBuilderInputs
    /\ objs = [h \in Handles |-> None]
    /\ epoch = [e \in EngineIds |-> 0]
    /\ last = NoOp
    /\ heap = NoHeap
    /\ host_fn = None
    /\ calls = NoCalls

\* The preemption controls on a module a and on a clone b of it that is
\* never instantiated.
NextFuel ==
    \/ module_build("a")
    \/ module_clone("a", "b")
    \/ module_instantiate("a")
    \/ \E h \in Handles : module_set_fuel(h)
    \/ \E h \in Handles : module_get_fuel(h)
    \/ \E h \in Handles : module_set_epoch_deadline(h)
    \/ \E h \in Handles : module_increment_epoch(h)
    \/ \E h \in Handles : module_drop(h)

SpecFuel == InitFuel /\ [][NextFuel]_vars

\* A caller about to run a module on a fuel budget.
InitBurn ==
    /\ variant \in {"sync", "async"}
    /\ phase = "module"
    /\ template = None
    /\ builder = None
    /\ count = 0
    /\ built = [err |-> "none", calls |-> 0, failAt |-> 0]
    /\ modules = << >>
    /\ NoCallers
    /\ mbuilder \in BurnBuilderInputs
    /\ objs = [h \in Handles |-> None]
    /\ epoch = [e \in EngineIds |-> 0]
    /\ last = NoOp
    /\ heap = NoHeap
    /\ host_fn = None
    /\ calls = NoCalls

\* One module: built, instantiated, given fuel, called.
NextBurn ==
    \/ module_build("a")
    \/ module_instantiate("a")
    \/ module_set_fuel("a")
    \/ module_get_fuel("a")
    \/ module_call("a")
    \/ module_drop("a")

SpecBurn == InitBurn /\ [][NextBurn]_vars

\* Guest code that does nothing wrong.
SoundGuest == Behaviour("ok", "ok", "data", "ok")

\* Two instances of the module that b builds: a, and either a clone of the
\* instantiated a, itself instantiated (as ModulePoolBuilder::build makes the
\* instances of a pool from its template), or a module built and instantiated
\* apart from a.
InstancePairs(v, b) ==
    LET m == unwrap(ModuleBuilder_build(b).val)
        a == Module_instantiate(v, m, "a", "none", SoundGuest).m
        clone == Module_instantiate(v, Module_clone(unwrap(a)), "b", "none", SoundGuest).m
        apart == Module_instantiate(v, m, "b", "none", SoundGuest).m
    IN { [h \in Handles |-> IF h = "a" THEN a ELSE other] : other \in {clone, apart} }

\* A caller with two instances side by side.
InitSandbox ==
    /\ variant \in {"sync", "async"}
    /\ phase = "module"
    /\ template = None
    /\ builder = None
    /\ count = 0
    /\ built = [err |-> "none", calls |-> 0, failAt |-> 0]
    /\ modules = << >>
    /\ NoCallers
    /\ mbuilder \in SandboxBuilderInputs
    /\ objs \in InstancePairs(variant, mbuilder)
    /\ epoch = [e \in EngineIds |-> 0]
    /\ last = NoOp
    /\ heap = NoHeap
    /\ host_fn = None
    /\ calls = NoCalls

\* The preemption controls on either instance.
NextSandbox ==
    \/ \E h \in Handles : module_set_fuel(h)
    \/ \E h \in Handles : module_set_epoch_deadline(h)
    \/ \E h \in Handles : module_increment_epoch(h)

SpecSandbox == InitSandbox /\ [][NextSandbox]_vars

\* ============================================================ memory.rs
\* The marshalling bridge: packed descriptors, and reads and writes of guest
\* memory through guest_alloc and guest_dealloc.

\* No pool and no caller of one.
NoPool ==
    /\ template = None
    /\ builder = None
    /\ count = 0
    /\ built = [err |-> "none", calls |-> 0, failAt |-> 0]
    /\ modules = << >>
    /\ NoCallers

\* u32, and u64 (usize on the 64-bit hosts the runtime is built for).
U32 == 0 .. 2^PtrBits - 1
U64 == 0 .. 2^(2 * PtrBits) - 1

\* x | y on naturals, bit by bit.
RECURSIVE BitOr(_, _)
BitOr(x, y) ==
    IF x = 0 THEN y
    ELSE IF y = 0 THEN x
    ELSE (IF x % 2 = 1 \/ y % 2 = 1 THEN 1 ELSE 0) + 2 * BitOr(x \div 2, y \div 2)

\* pack_ptr with the pointer left in the low half.
pack_ptr_unshifted(ptr, len) == BitOr(ptr, len)

\* pack_ptr(ptr: u32, len: usize) -> u64: ((ptr as u64) << 32) | (len as u64).
\* The shift is a multiplication that keeps the 64 bits of a u64.
pack_ptr(ptr, len) == BitOr((ptr * 2^PtrBits) % 2^(2 * PtrBits), len)

\* unpack_ptr(packed: u64) -> (u32, usize):
\* ((packed >> 32) as u32, (packed & 0xFFFFFFFF) as usize).  The shift is a
\* division, the cast to u32 and the mask keep the low 32 bits.
unpack_ptr(packed) ==
    << (packed \div 2^PtrBits) % 2^PtrBits, packed % 2^PtrBits >>

\* The value the caller holds: a (ptr, len) pair, or a one-element tuple with
\* a descriptor.
Held == unwrap(last.res.val)

\* let d = pack_ptr(ptr, len), on the pair the caller holds.
memory_pack_ptr ==
    /\ phase = "memory"
    /\ last.op \in {"input", "unpack_ptr"}
    /\ Len(Held) = 2 /\ Len(last.trace) < 2
    /\ last' = Op("pack_ptr", "-", "-", last.args, 0,
                  Ok(<< pack_ptr(Held[1], Held[2]) >>), Append(last.trace, "pack_ptr"))
    /\ UNCHANGED << calls, host_fn, heap, mbuilder, objs, epoch, variant, phase,
                    builderVars, built, poolVars >>

\* let (ptr, len) = unpack_ptr(d), on the descriptor the caller holds.
memory_unpack_ptr ==
    /\ phase = "memory"
    /\ last.op \in {"input", "pack_ptr"}
    /\ Len(Held) = 1 /\ Len(last.trace) < 2
    /\ last' = Op("unpack_ptr", "-", "-", last.args, 0,
                  Ok(unpack_ptr(Held[1])), Append(last.trace, "unpack_ptr"))
    /\ UNCHANGED << calls, host_fn, heap, mbuilder, objs, epoch, variant, phase,
                    builderVars, built, poolVars >>

\* The caller holds a pointer and a length, or a descriptor.
InitPack ==
    /\ variant = "sync"
    /\ phase = "memory"
    /\ NoPool
    /\ mbuilder = None
    /\ objs = [h \in Handles |-> None]
    /\ epoch = [e \in EngineIds |-> 0]
    /\ last \in { Op("input", "-", "-", x, 0, Ok(x), << >>) :
                    x \in (U32 \X U64) \cup { << d >> : d \in U64 } }
    /\ heap = NoHeap
    /\ host_fn = None
    /\ calls = NoCalls

NextPack == memory_pack_ptr \/ memory_unpack_ptr

SpecPack == InitPack /\ [][NextPack]_vars

\* ------------------------------------------------------------ MemoryOps
\* The guest's memory is known by its live allocations: records with the
\* address, the length and the bytes put there ("in": what the host wrote).
\* The bytes of any other range are "stale".
Region(ptr, len, data) == [ptr |-> ptr, len |-> len, data |-> data]

\* memory.read / memory.write succeed on the ranges inside the memory.
InBounds(ptr, len) == ptr + len <= MemSize

\* What a sound guest_alloc(size) may return: an address, never 0, that no
\* live allocation has, of a range inside the memory and apart from every
\* live allocation.
SoundAllocs(h, size) ==
    { ptr \in U32 :
        /\ ptr # 0 /\ InBounds(ptr, size)
        /\ \A r \in h : r.ptr # ptr /\ (ptr + size <= r.ptr \/ r.ptr + r.len <= ptr) }

\* The bytes memory.read copies out of a range.
BytesAt(h, ptr, len) ==
    IF \E r \in h : r.ptr = ptr /\ r.len = len
    THEN (CHOOSE r \in h : r.ptr = ptr /\ r.len = len).data
    ELSE "stale"

\* A guest-side event of the bridge.
Event(ev, ptr, len) == [ev |-> ev, ptr |-> ptr, len |-> len]

\* MemoryOps::write / AsyncMemoryOps::write of the size bytes of data:
\* guest_alloc(size), then memory.write at the pointer it returned.  alloc:
\* "trap" when guest_alloc traps, else ptr is what it returned.
MemoryOps_write(h, data, size, alloc, ptr) ==
    IF alloc = "trap"
    THEN Outcome(Err("MemoryError: Guest alloc failed"), h,
                 << Event("guest_alloc", 0, size) >>)
    ELSE IF ~InBounds(ptr, size)
    THEN Outcome(Err("MemoryError: Memory write failed"), h,
                 << Event("guest_alloc", 0, size) >>)
    ELSE Outcome(Ok(<< ptr, size >>), h \cup {Region(ptr, size, data)},
                 << Event("guest_alloc", 0, size), Event("memory.write", ptr, size) >>)

\* read without its first test.
MemoryOps_read_unchecked(h, ptr, len, deallocTraps) ==
    IF ~InBounds(ptr, len)
    THEN Outcome(Err("MemoryError: Memory read failed"), h, << >>)
    ELSE IF deallocTraps
    THEN Outcome(Err("MemoryError: Guest dealloc failed"), h,
                 << Event("memory.read", ptr, len), Event("guest_dealloc", ptr, len) >>)
    ELSE Outcome(Ok(BytesAt(h, ptr, len)),
                 { r \in h : ~(r.ptr = ptr /\ r.len = len) },
                 << Event("memory.read", ptr, len), Event("guest_dealloc", ptr, len) >>)

\* read that leaves the region to the guest.
MemoryOps_read_borrow(h, ptr, len, deallocTraps) ==
    IF ptr = 0 \/ len = 0
    THEN Outcome(Err("MemoryError: Null pointer or zero length"), h, << >>)
    ELSE IF ~InBounds(ptr, len)
    THEN Outcome(Err("MemoryError: Memory read failed"), h, << >>)
    ELSE Outcome(Ok(BytesAt(h, ptr, len)), h, << Event("memory.read", ptr, len) >>)

\* MemoryOps::read / AsyncMemoryOps::read: the test of the descriptor, the
\* copy out of guest memory, then guest_dealloc(ptr, len), which frees the
\* region unless it traps.
MemoryOps_read(h, ptr, len, deallocTraps) ==
    IF ptr = 0 \/ len = 0
    THEN Outcome(Err("MemoryError: Null pointer or zero length"), h, << >>)
    ELSE IF ~InBounds(ptr, len)
    THEN Outcome(Err("MemoryError: Memory read failed"), h, << >>)
    ELSE IF deallocTraps
    THEN Outcome(Err("MemoryError: Guest dealloc failed"), h,
                 << Event("memory.read", ptr, len), Event("guest_dealloc", ptr, len) >>)
    ELSE Outcome(Ok(BytesAt(h, ptr, len)),
                 { r \in h : ~(r.ptr = ptr /\ r.len = len) },
                 << Event("memory.read", ptr, len), Event("guest_dealloc", ptr, len) >>)

\* memory.write(ctx, data) with data ("in") of 0 to 2 bytes: the guest's allocator is
\* sound ("ok"), traps, or returns an address whose range leaves the memory
\* ("oob").
memory_write ==
    /\ phase = "memory"
    /\ \E size \in 0 .. 2, alloc \in {"ok", "trap", "oob"}, ptr \in U32 :
         /\ alloc = "ok" => ptr \in SoundAllocs(heap, size)
         /\ alloc = "trap" => ptr = 0
         /\ alloc = "oob" => ~InBounds(ptr, size)
         /\ LET o == MemoryOps_write(heap, "in", size, alloc, ptr)
            IN /\ heap' = o.m
               /\ last' = Op("write", "-", "-", << size >>, 0, o.res, o.trace)
    /\ UNCHANGED << calls, host_fn, mbuilder, objs, epoch, variant, phase, builderVars, built,
                    poolVars >>

\* memory.read(ctx, ptr, len), with any descriptor a guest may hand over.
memory_read ==
    /\ phase = "memory"
    /\ \E ptr \in U32, len \in U32, deallocTraps \in BOOLEAN :
         LET o == MemoryOps_read(heap, ptr, len, deallocTraps)
         IN /\ heap' = o.m
            /\ last' = Op("read", "-", "-", << ptr, len >>, 0, o.res, o.trace)
    /\ UNCHANGED << calls, host_fn, mbuilder, objs, epoch, variant, phase, builderVars, built,
                    poolVars >>

\* A MemoryOps (sync) or AsyncMemoryOps (async) on a guest with nothing
\* allocated.
InitBridge ==
    /\ variant \in {"sync", "async"}
    /\ phase = "memory"
    /\ NoPool
    /\ NoModules

NextBridge == memory_write \/ memory_read

SpecBridge == InitBridge /\ [][NextBridge]_vars

\* ------------------------------------------------------------ serde_json
\* serde_json::Value, written as its JSON text.
Values == {"null", "7", "true"}

\* The values a caller passes where the API takes a T: Serialize.
Natives == {"()", "None", "7i64", "true"}

\* The types a callee asks for where the API takes a T: DeserializeOwned.
Types == {"i64", "bool"}

\* The keys of keyword arguments.
Keys == {"k"}

\* serde_json::to_value(x): the unit value and Option::None both become
\* Value::Null.
to_value(x) ==
    CASE x = "()" -> "null"
      [] x = "None" -> "null"
      [] x = "7i64" -> "7"
      [] x = "true" -> "true"

\* serde_json::from_value::<T>(v); the error is serde's message, shortened.
from_value(v, T) ==
    IF T = "i64" /\ v = "7" THEN Ok("7i64")
    ELSE IF T = "bool" /\ v = "true" THEN Ok("true")
    ELSE Err("invalid type: " \o v \o ", expected " \o T)

\* ------------------------------------------------------------ FnError
\* FnError::new(error_type, message)
FnError_new(error_type, message) == [error_type |-> error_type, message |-> message]

\* impl Display for FnError: "{type}: {message}".
FnError_fmt(e) == e.error_type \o ": " \o e.message

\* A native error value seen through E: ToString: any::type_name::<E>() and
\* error.to_string().
NativeError(type_name, to_string) == [type_name |-> type_name, to_string |-> to_string]

\* A FnError handed over as &E.
FnError_as_error(e) == NativeError("binmod_core::error::FnError", FnError_fmt(e))

\* ------------------------------------------------------------ FnInput
FnInput(args, kwargs) == [args |-> args, kwargs |-> kwargs]

\* FnInput::new()
FnInput_new == FnInput(None, None)

\* HashMap::insert / extend on a map kept as a set of (key, value) pairs.
HashMap_extend(map, more) ==
    { p \in map : \A q \in more : q[1] # p[1] } \cup more

\* The maps with keys in K and values in V.
HashMaps(K, V) ==
    { m \in SUBSET (K \X V) : \A p \in m, q \in m : p[1] = q[1] => p = q }

\* The vectors of at most n elements of S.
Vecs(S, n) == UNION { [1 .. k -> S] : k \in 0 .. n }

\* FnInput::with_arg(self, arg), arg written x.
with_arg(self, x) ==
    Ok(FnInput(IF is_some(self.args) THEN Some(Append(unwrap(self.args), to_value(x)))
               ELSE Some(<< to_value(x) >>),
               self.kwargs))

\* FnInput::with_args(self, args)
with_args(self, args) ==
    LET collected == [i \in 1 .. Len(args) |-> to_value(args[i])]
    IN Ok(FnInput(IF is_some(self.args) THEN Some(unwrap(self.args) \o collected)
                  ELSE Some(collected),
                  self.kwargs))

\* FnInput::with_kwarg(self, key, value)
with_kwarg(self, key, value) ==
    Ok(FnInput(self.args,
               IF is_some(self.kwargs)
               THEN Some(HashMap_extend(unwrap(self.kwargs), {<< key, to_value(value) >>}))
               ELSE Some({<< key, to_value(value) >>})))

\* FnInput::with_kwargs(self, kwargs)
with_kwargs(self, kwargs) ==
    LET collected == { << p[1], to_value(p[2]) >> : p \in kwargs }
    IN Ok(FnInput(self.args,
                  IF is_some(self.kwargs)
                  THEN Some(HashMap_extend(unwrap(self.kwargs), collected))
                  ELSE Some(collected)))

\* FnInput::get_arg::<T>(&self, index), index counted from 0.
get_arg(self, index, T) ==
    IF is_some(self.args) /\ index < Len(unwrap(self.args))
    THEN LET r == from_value(unwrap(self.args)[index + 1], T)
         IN IF r.ok THEN r
            ELSE Err(FnError_new("DeserializationError",
                                 "Failed to parse argument " \o ToString(index) \o ": " \o r.err))
    ELSE Err(FnError_new("MissingArg", "Missing arg in position " \o ToString(index)))

\* FromFnInput for (), (A,), (A, B), ...: get_arg(0)?, get_arg(1)?, ... in
\* order, the first error returned.  params: the types of the tuple.
from_fn_input(input, params) ==
    LET bad == { i \in 1 .. Len(params) : ~get_arg(input, i - 1, params[i]).ok }
    IN IF bad = {}
       THEN Ok([i \in 1 .. Len(params) |-> unwrap(get_arg(input, i - 1, params[i]).val)])
       ELSE get_arg(input, (CHOOSE i \in bad : \A j \in bad : i <= j) - 1,
                    params[CHOOSE i \in bad : \A j \in bad : i <= j])

\* ------------------------------------------------------------ FnResult
\* The variants Data { value: Option<Value> } and Error { error: FnError }.
FnResult_Data(value) == [object |-> "data", value |-> value]
FnResult_Error(error) == [object |-> "error", error |-> error]

\* FnResult::ok(value)
FnResult_ok(value) == Ok(FnResult_Data(Some(to_value(value))))

\* FnResult::err(error: &E)
FnResult_err(error) == FnResult_Error(FnError_new(error.type_name, error.to_string))

\* FnResult::none()
FnResult_none == FnResult_Data(None)

\* What a native function returns: (), Ok(value) or Err(error).
Unit == [kind |-> "unit"]
ReturnsOk(value) == [kind |-> "ok", value |-> value]
ReturnsErr(error) == [kind |-> "err", error |-> error]

\* IntoFnResult for () and for Result<T, E>.
into_fn_result(returned) ==
    IF returned.kind = "unit" THEN FnResult_none
    ELSE IF returned.kind = "ok"
    THEN LET r == FnResult_ok(returned.value)
         IN IF r.ok THEN unwrap(r.val) ELSE FnResult_err(FnError_as_error(r.err))
    ELSE FnResult_err(returned.error)

\* ------------------------------------------------------------ the wire form
\* A JSON document is known by the members it has: a member is "absent",
\* "null", or present with a value.
InputDoc(args_is, args, kwargs_is, kwargs) ==
    [args_is |-> args_is, args |-> args, kwargs_is |-> kwargs_is, kwargs |-> kwargs]

DataDoc(value_is, value) == [object |-> "data", value_is |-> value_is, value |-> value]
ErrorDoc(type, message) == [object |-> "error", type |-> type, message |-> message]

\* The JSON text of a document.
RECURSIVE Join(_)
Join(texts) ==
    IF texts = << >> THEN ""
    ELSE IF Len(texts) = 1 THEN texts[1]
    ELSE texts[1] \o "," \o Join(Tail(texts))

Quote(s) == "\"" \o s \o "\""
Member(name, text) == Quote(name) \o ":" \o text
JsonArray(items) == "[" \o Join(items) \o "]"
JsonObject(members) == "{" \o Join(members) \o "}"

RECURSIVE Members(_)
Members(map) ==
    IF map = {} THEN << >>
    ELSE LET p == CHOOSE p \in map : TRUE
         IN << Member(p[1], p[2]) >> \o Members(map \ {p})

InputText(doc) ==
    JsonObject(
        (IF doc.args_is = "absent" THEN << >>
         ELSE << Member("args", IF doc.args_is = "null" THEN "null"
                                ELSE JsonArray(doc.args)) >>)
        \o
        (IF doc.kwargs_is = "absent" THEN << >>
         ELSE << Member("kwargs", IF doc.kwargs_is = "null" THEN "null"
                                  ELSE JsonObject(Members(doc.kwargs))) >>))

ResultText(doc) ==
    IF doc.object = "data"
    THEN JsonObject(
             << Member("object", Quote("data")) >>
             \o
             (IF doc.value_is = "absent" THEN << >>
              ELSE << Member("value", IF doc.value_is = "null" THEN "null"
                                      ELSE doc.value) >>))
    ELSE JsonObject(<< Member("object", Quote("error")),
                       Member("type", Quote(doc.type)),
                       Member("message", Quote(doc.message)) >>)

\* derive(Serialize) for FnInput: both fields carry
\* skip_serializing_if = "Option::is_none".
FnInput_serialize(x) ==
    InputDoc(IF x.args = None THEN "absent" ELSE "array",
             IF x.args = None THEN << >> ELSE unwrap(x.args),
             IF x.kwargs = None THEN "absent" ELSE "object",
             IF x.kwargs = None THEN {} ELSE unwrap(x.kwargs))

\* derive(Deserialize) for FnInput: an Option field is None when the member
\* is missing and when it is null.
FnInput_deserialize(doc) ==
    FnInput(IF doc.args_is = "array" THEN Some(doc.args) ELSE None,
            IF doc.kwargs_is = "object" THEN Some(doc.kwargs) ELSE None)

\* derive(Serialize) for FnResult, tagged by "object": value carries no
\* attribute, so None is written as null, as Some(Value::Null) is; the
\* FnError of Error is flattened.
FnResult_serialize(x) ==
    IF x.object = "data"
    THEN IF x.value = None THEN DataDoc("null", "")
         ELSE IF unwrap(x.value) = "null" THEN DataDoc("null", "")
         ELSE DataDoc("value", unwrap(x.value))
    ELSE ErrorDoc(x.error.error_type, x.error.message)

\* derive(Deserialize) for FnResult.
FnResult_deserialize(doc) ==
    IF doc.object = "data"
    THEN FnResult_Data(IF doc.value_is = "value" THEN Some(doc.value) ELSE None)
    ELSE FnResult_Error(FnError_new(doc.type, doc.message))

\* The documents a parser of the model's texts tells apart.
SerdeMessages == { from_value(v, T).err : v \in Values, T \in Types } \ {"none"}

ArgMessages ==
    { "Missing arg in position " \o ToString(i) : i \in 0 .. MaxArgs - 1 }
    \cup { "Failed to parse argument " \o ToString(i) \o ": " \o m :
             i \in 0 .. MaxArgs - 1, m \in SerdeMessages }

ArgErrorTypes == {"MissingArg", "DeserializationError"}

Messages ==
    {"boom"} \cup ArgMessages
    \cup { t \o ": " \o m : t \in ArgErrorTypes, m \in ArgMessages }

ErrorTypes == ArgErrorTypes \cup {"alloc::string::String", "binmod_core::error::FnError"}

InputDocs ==
    { InputDoc(a[1], a[2], k[1], k[2]) :
        a \in { << "absent", << >> >>, << "null", << >> >> }
              \cup { << "array", v >> : v \in Vecs(Values, MaxArgs) },
        k \in { << "absent", {} >>, << "null", {} >> }
              \cup { << "object", m >> : m \in HashMaps(Keys, Values) } }

ResultDocs ==
    { DataDoc("absent", ""), DataDoc("null", "") }
    \cup { DataDoc("value", v) : v \in Values \ {"null"} }
    \cup { ErrorDoc(t, m) : t \in ErrorTypes, m \in Messages }

\* The parser: each JSON text with the document it is the text of.
InputTexts ==
    [text \in { InputText(doc) : doc \in InputDocs } |->
        CHOOSE doc \in InputDocs : InputText(doc) = text]
ResultTexts ==
    [text \in { ResultText(doc) : doc \in ResultDocs } |->
        CHOOSE doc \in ResultDocs : ResultText(doc) = text]

\* The document a text is the JSON of, if any.
InputDocOf(bytes) == IF bytes \in DOMAIN InputTexts THEN {InputTexts[bytes]} ELSE {}
ResultDocOf(bytes) == IF bytes \in DOMAIN ResultTexts THEN {ResultTexts[bytes]} ELSE {}

\* FnInput::to_bytes(&self): serde_json::to_vec.
FnInput_to_bytes(x) == Ok(InputText(FnInput_serialize(x)))

\* FnInput::from_bytes(bytes): serde_json::from_slice.
FnInput_from_bytes(bytes) ==
    IF InputDocOf(bytes) = {}
    THEN Err(FnError_new("DeserializationError", "expected value"))
    ELSE Ok(FnInput_deserialize(CHOOSE doc \in InputDocOf(bytes) : TRUE))

\* FnResult::to_bytes(&self)
FnResult_to_bytes(x) == Ok(ResultText(FnResult_serialize(x)))

\* FnResult::from_bytes(bytes)
FnResult_from_bytes(bytes) ==
    IF ResultDocOf(bytes) = {}
    THEN Err(FnError_new("DeserializationError", "expected value"))
    ELSE Ok(FnResult_deserialize(CHOOSE doc \in ResultDocOf(bytes) : TRUE))

\* ------------------------------------------------------------ codec actions
\* The value the caller holds.
Kind == last.h
Built == last.op \in {"new", "with_arg", "with_args", "with_kwarg", "with_kwargs",
                      "ok", "err", "none()"}

CodecStep(op, kind, x, res) ==
    /\ phase = "codec"
    /\ last' = Op(op, kind, "-", x, 0, res, << >>)
    /\ UNCHANGED << calls, host_fn, heap, mbuilder, objs, epoch, variant, phase, builderVars, built,
                    poolVars >>

\* The errors a caller hands to FnResult::err.
NativeErrors ==
    { NativeError("alloc::string::String", "boom") }
    \cup { FnError_as_error(FnError_new(t, m)) : t \in ArgErrorTypes, m \in ArgMessages }

codec_new ==
    /\ last.op = "none"
    /\ CodecStep("new", "FnInput", "-", Ok(FnInput_new))

codec_with_arg ==
    /\ Built /\ Kind = "FnInput"
    /\ IF unwrap(last.res.val).args = None THEN TRUE
       ELSE Len(unwrap(unwrap(last.res.val).args)) < MaxArgs
    /\ \E x \in Natives :
         CodecStep("with_arg", "FnInput", "-", with_arg(unwrap(last.res.val), x))

codec_with_args ==
    /\ Built /\ Kind = "FnInput"
    /\ \E args \in Vecs(Natives, MaxArgs) :
         /\ IF unwrap(last.res.val).args = None THEN TRUE
            ELSE Len(unwrap(unwrap(last.res.val).args)) + Len(args) <= MaxArgs
         /\ CodecStep("with_args", "FnInput", "-", with_args(unwrap(last.res.val), args))

codec_with_kwarg ==
    /\ Built /\ Kind = "FnInput"
    /\ \E key \in Keys, value \in Natives :
         CodecStep("with_kwarg", "FnInput", "-", with_kwarg(unwrap(last.res.val), key, value))

codec_with_kwargs ==
    /\ Built /\ Kind = "FnInput"
    /\ \E kwargs \in HashMaps(Keys, Natives) :
         CodecStep("with_kwargs", "FnInput", "-", with_kwargs(unwrap(last.res.val), kwargs))

codec_ok ==
    /\ last.op = "none"
    /\ \E value \in Natives : CodecStep("ok", "FnResult", "-", FnResult_ok(value))

codec_err ==
    /\ last.op = "none"
    /\ \E error \in NativeErrors : CodecStep("err", "FnResult", "-", Ok(FnResult_err(error)))

codec_none ==
    /\ last.op = "none"
    /\ CodecStep("none()", "FnResult", "-", Ok(FnResult_none))

\* x.to_bytes() on the value built; the value is kept in args.
codec_to_bytes ==
    /\ Built
    /\ LET x == unwrap(last.res.val)
       IN CodecStep("to_bytes", Kind, x,
                    IF Kind = "FnInput" THEN FnInput_to_bytes(x) ELSE FnResult_to_bytes(x))

\* from_bytes on the bytes to_bytes returned.
codec_from_bytes ==
    /\ last.op = "to_bytes" /\ last.res.ok
    /\ LET bytes == unwrap(last.res.val)
           r == IF Kind = "FnInput" THEN FnInput_from_bytes(bytes)
                ELSE FnResult_from_bytes(bytes)
       IN CodecStep("from_bytes", Kind, last.args,
                    IF r.ok THEN r ELSE Err(FnError_fmt(r.err)))

InitCodec ==
    /\ variant = "sync"
    /\ phase = "codec"
    /\ NoPool
    /\ NoModules

NextCodec ==
    \/ codec_new \/ codec_with_arg \/ codec_with_args \/ codec_with_kwarg
    \/ codec_with_kwargs \/ codec_ok \/ codec_err \/ codec_none
    \/ codec_to_bytes \/ codec_from_bytes

SpecCodec == InitCodec /\ [][NextCodec]_vars

\* ------------------------------------------------------------ host functions
\* A native function behind HostFnWrapper: the types of its parameters and
\* what it returns when it is run.
NativeFn(params, returned) == [params |-> params, returned |-> returned]

Returns ==
    { Unit, ReturnsOk("7i64"), ReturnsErr(NativeError("alloc::string::String", "boom")) }

NativeFns == { NativeFn(p, r) : p \in Vecs(Types, MaxArgs), r \in Returns }

\* A wrapper that answers a bad input with the unit result.
HostFnWrapper_call_lenient(f, input) ==
    IF ~from_fn_input(input, f.params).ok THEN FnResult_none
    ELSE IF f.returned.kind = "err" THEN FnResult_none
    ELSE into_fn_result(f.returned)

\* HostFnCallable::call(&self, input) for HostFnWrapper<F, (T1, .., Tn)>:
\* the arguments are taken from the input, an error of that is returned as
\* FnResult::err(&e); else the function runs and its value is converted.
HostFnWrapper_call(f, input) ==
    IF ~from_fn_input(input, f.params).ok
    THEN FnResult_err(FnError_as_error(from_fn_input(input, f.params).err))
    ELSE into_fn_result(f.returned)

\* The steps of HostFnWrapper::call that a log shows: get_arg(index) and the
\* run of the native function.
Extract(index) == [ev |-> "get_arg", index |-> index]
Invoke == [ev |-> "native"]

\* The get_arg calls from_fn_input makes: one per parameter by ascending
\* index, up to the first that fails.
get_arg_calls(input, params) ==
    LET bad == { i \in 1 .. Len(params) : ~get_arg(input, i - 1, params[i]).ok }
        n == IF bad = {} THEN Len(params) ELSE CHOOSE i \in bad : \A j \in bad : i <= j
    IN [i \in 1 .. n |-> Extract(i - 1)]

\* A wrapper that runs the function whatever the arguments were.
HostFnWrapper_steps_eager(f, input) ==
    get_arg_calls(input, f.params) \o << Invoke >>

\* What HostFnWrapper::call does, in order: the arguments are extracted, and
\* the native function runs if all of them were.
HostFnWrapper_steps(f, input) ==
    get_arg_calls(input, f.params)
    \o (IF from_fn_input(input, f.params).ok THEN << Invoke >> ELSE << >>)

\* HostFn::into_func / into_func_async, the closure wasmtime calls with the
\* guest's descriptor d, up to the bytes of the result: from_caller,
\* unpack_ptr, memory.read, FnInput::from_bytes, self.func.call(&input)
\* .to_bytes().  exports: the caller has memory, guest_alloc and
\* guest_dealloc; deallocTraps: what guest_dealloc does.  Every `?` of the
\* closure is a trap: Err with the error's text.
into_func_input(f, h, d, exports, deallocTraps) ==
    IF ~exports
    THEN Outcome(Err("MemoryError: failed to find memory export"), h, << >>)
    ELSE
    LET rd == MemoryOps_read(h, unpack_ptr(d)[1], unpack_ptr(d)[2], deallocTraps)
    IN IF ~rd.res.ok THEN rd
       ELSE
       LET input == FnInput_from_bytes(unwrap(rd.res.val))
       IN IF ~input.ok THEN Outcome(Err(FnError_fmt(input.err)), rd.m, rd.trace)
          ELSE Outcome(FnResult_to_bytes(HostFnWrapper_call(f, unwrap(input.val))), rd.m,
                       rd.trace \o HostFnWrapper_steps(f, unwrap(input.val)))

\* The rest of the closure: memory.write of the bytes and pack_ptr.  alloc,
\* ptr: what guest_alloc does.
into_func_result(h, bytes, alloc, ptr) ==
    LET wr == MemoryOps_write(h, bytes, MsgLen, alloc, ptr)
    IN IF ~wr.res.ok THEN wr
       ELSE Outcome(Ok(<< pack_ptr(unwrap(wr.res.val)[1], unwrap(wr.res.val)[2]) >>),
                    wr.m, wr.trace)

\* The whole closure.
into_func(f, h, d, exports, deallocTraps, alloc, ptr) ==
    LET a == into_func_input(f, h, d, exports, deallocTraps)
    IN IF ~a.res.ok THEN a
       ELSE LET b == into_func_result(a.m, unwrap(a.res.val), alloc, ptr)
            IN Outcome(b.res, b.m, a.trace \o b.trace)

\* What a guest writes as the input of an import: the JSON of positional
\* arguments, a document with null members, or bytes that are no JSON.
GuestBytes ==
    { InputText(InputDoc("array", v, "absent", {})) : v \in Vecs(Values, MaxArgs) }
    \cup { "{}", "{\"args\":null}", "garbage" }

\* The guest puts the input of a call in its memory.
guest_put ==
    /\ phase = "host_fn"
    /\ last.op \in {"none", "take"}
    /\ \E bytes \in GuestBytes, ptr \in SoundAllocs(heap, MsgLen) :
         /\ heap' = heap \cup {Region(ptr, MsgLen, bytes)}
         /\ last' = Op("put", "-", "-", << ptr, MsgLen >>, 0,
                       Ok(<< pack_ptr(ptr, MsgLen) >>), << >>)
    /\ UNCHANGED << calls, host_fn, mbuilder, objs, epoch, variant, phase, builderVars, built,
                    poolVars >>

\* The guest calls the import with a descriptor: that of a region it holds,
\* or 0.
host_fn_upcall ==
    /\ phase = "host_fn"
    /\ last.op \in {"none", "put"}
    /\ \E d \in { pack_ptr(r.ptr, r.len) : r \in heap } \cup {0},
          exports \in BOOLEAN, deallocTraps \in BOOLEAN,
          alloc \in {"ok", "trap", "oob"}, ptr \in U32 :
         /\ alloc = "ok" =>
              ptr \in SoundAllocs(MemoryOps_read(heap, unpack_ptr(d)[1], unpack_ptr(d)[2],
                                                 deallocTraps).m, MsgLen)
         /\ alloc = "trap" => ptr = 0
         /\ alloc = "oob" => ~InBounds(ptr, MsgLen)
         /\ \E o \in { into_func(unwrap(host_fn), heap, d, exports, deallocTraps, alloc, ptr) } :
              /\ heap' = o.m
              /\ last' = Op("host_fn", "-", "-", << d >>, 0, o.res, o.trace)
    /\ UNCHANGED << calls, host_fn, mbuilder, objs, epoch, variant, phase, builderVars, built,
                    poolVars >>

\* The guest reads the result behind the descriptor it got, and frees it.
guest_take ==
    /\ phase = "host_fn"
    /\ last.op = "host_fn" /\ last.res.ok
    /\ LET p == unpack_ptr(unwrap(last.res.val)[1])
           r == FnResult_from_bytes(BytesAt(heap, p[1], p[2]))
       IN /\ heap' = { x \in heap : ~(x.ptr = p[1] /\ x.len = p[2]) }
          /\ last' = Op("take", "-", "-", << p[1], p[2] >>, 0,
                        IF r.ok THEN r ELSE Err(FnError_fmt(r.err)), << >>)
    /\ UNCHANGED << calls, host_fn, mbuilder, objs, epoch, variant, phase, builderVars, built,
                    poolVars >>

\* A guest with nothing allocated that imports one host function, registered
\* with into_func (sync) or into_func_async (async).
InitHostFn ==
    /\ variant \in {"sync", "async"}
    /\ phase = "host_fn"
    /\ NoPool
    /\ mbuilder = None
    /\ objs = [h \in Handles |-> None]
    /\ epoch = [e \in EngineIds |-> 0]
    /\ last = NoOp
    /\ heap = NoHeap
    /\ host_fn \in { Some(f) : f \in NativeFns }
    /\ calls = NoCalls

NextHostFn == guest_put \/ host_fn_upcall \/ guest_take

SpecHostFn == InitHostFn /\ [][NextHostFn]_vars

\* ------------------------------------------------------------ ModuleEnv
\* The addresses a guest names.
Addrs == {"127.0.0.1:80", "10.0.0.1:53"}

\* The variants of SocketAddrUse (wasmtime_wasi) and ModuleSocketAddrAction.
SocketKinds == {"TcpBind", "TcpConnect", "UdpBind", "UdpConnect", "UdpOutgoingDatagram"}
SocketAddrUse(kind) == [enum |-> "SocketAddrUse", kind |-> kind]
ModuleSocketAddrAction(kind) == [enum |-> "ModuleSocketAddrAction", kind |-> kind]

\* A conversion that takes a bind for a connect.
from_SocketAddrUse_crossed(action) ==
    CASE action.kind = "TcpBind" -> ModuleSocketAddrAction("TcpConnect")
      [] action.kind = "TcpConnect" -> ModuleSocketAddrAction("TcpBind")
      [] action.kind = "UdpBind" -> ModuleSocketAddrAction("UdpConnect")
      [] action.kind = "UdpConnect" -> ModuleSocketAddrAction("UdpBind")
      [] action.kind = "UdpOutgoingDatagram" -> ModuleSocketAddrAction("UdpOutgoingDatagram")

\* impl From<SocketAddrUse> for ModuleSocketAddrAction
from_SocketAddrUse(action) ==
    CASE action.kind = "TcpBind" -> ModuleSocketAddrAction("TcpBind")
      [] action.kind = "TcpConnect" -> ModuleSocketAddrAction("TcpConnect")
      [] action.kind = "UdpBind" -> ModuleSocketAddrAction("UdpBind")
      [] action.kind = "UdpConnect" -> ModuleSocketAddrAction("UdpConnect")
      [] action.kind = "UdpOutgoingDatagram" -> ModuleSocketAddrAction("UdpOutgoingDatagram")

\* A socket_check predicate, known by the (address, action) pairs it returns
\* true for.
AllPairs == { << a, ModuleSocketAddrAction(k) >> : a \in Addrs, k \in SocketKinds }

\* The predicates a caller configures: true for one pair only, or false for
\* one pair only.
UserChecks == { {p} : p \in AllPairs } \cup { AllPairs \ {p} : p \in AllPairs }

ModuleNetwork(allow_tcp, allow_udp, socket_check) ==
    [allow_tcp |-> allow_tcp, allow_udp |-> allow_udp, socket_check |-> socket_check]

\* ModuleNetwork::new(): the families are allowed, the predicate is false.
ModuleNetwork_new == ModuleNetwork(TRUE, TRUE, {})

\* ModuleNetwork::inherit(self)
ModuleNetwork_inherit(self) == ModuleNetwork(TRUE, TRUE, AllPairs)

\* ModuleEnv::new(), as far as the network goes.
ModuleEnv_new == [network |-> ModuleNetwork_new]

\* From<ModuleEnv> for WasiP1Ctx: the families, and the closure given to
\* socket_addr_check, which hands (addr, action.into()) to the predicate.
\* calls is what the predicate is called with, result what it answers.
WasiP1Ctx_from(env) ==
    [allow_tcp |-> env.network.allow_tcp,
     allow_udp |-> env.network.allow_udp,
     socket_addr_check |->
        [addr \in Addrs, k \in SocketKinds |->
            [calls |-> << << addr, from_SocketAddrUse(SocketAddrUse(k)) >> >>,
             result |-> << addr, from_SocketAddrUse(SocketAddrUse(k)) >>
                          \in env.network.socket_check]]]

\* The engine's decision on a socket operation: the family must be allowed,
\* then socket_addr_check is asked.
Wasi_socket(ctx, addr, action) ==
    IF action.kind \in {"TcpBind", "TcpConnect"} /\ ~ctx.allow_tcp
    THEN [permitted |-> FALSE, calls |-> << >>]
    ELSE IF action.kind \in {"UdpBind", "UdpConnect", "UdpOutgoingDatagram"} /\ ~ctx.allow_udp
    THEN [permitted |-> FALSE, calls |-> << >>]
    ELSE [permitted |-> ctx.socket_addr_check[addr, action.kind].result,
          calls |-> ctx.socket_addr_check[addr, action.kind].calls]

\* The environment the caller is building.
Env == unwrap(mbuilder)

EnvStep(op, args, env) ==
    /\ phase = "env"
    /\ last.op # "socket"
    /\ mbuilder' = Some(env)
    /\ last' = Op(op, "-", "-", args, 0, Ok("unit"), << >>)
    /\ UNCHANGED << calls, host_fn, heap, objs, epoch, variant, phase, builderVars,
                    built, poolVars >>

\* ModuleEnv::inherit(self) / inherit_network(self)
env_inherit_network ==
    EnvStep("inherit_network", "-", [Env EXCEPT !.network = ModuleNetwork_inherit(@)])

\* ModuleEnv::allow_tcp(self, allow)
env_allow_tcp ==
    \E allow \in BOOLEAN : EnvStep("allow_tcp", allow, [Env EXCEPT !.network.allow_tcp = allow])

\* ModuleEnv::allow_udp(self, allow)
env_allow_udp ==
    \E allow \in BOOLEAN : EnvStep("allow_udp", allow, [Env EXCEPT !.network.allow_udp = allow])

\* ModuleEnv::socket_check(self, f)
env_socket_check ==
    \E f \in UserChecks : EnvStep("socket_check", "-", [Env EXCEPT !.network.socket_check = f])

\* The guest of a module built with this environment attempts a socket
\* operation; the engine reports it to the context made of the environment.
guest_socket ==
    /\ phase = "env"
    /\ \E addr \in Addrs, k \in SocketKinds :
         \E d \in { Wasi_socket(WasiP1Ctx_from(Env), addr, SocketAddrUse(k)) } :
            last' = Op("socket", "-", "-", << addr, k >>, 0, Ok(d.permitted), d.calls)
    /\ UNCHANGED << calls, host_fn, heap, mbuilder, objs, epoch, variant, phase, builderVars, built,
                    poolVars >>

\* ModuleEnv::new()
InitEnv ==
    /\ variant \in {"sync", "async"}
    /\ phase = "env"
    /\ NoPool
    /\ mbuilder = Some(ModuleEnv_new)
    /\ objs = [h \in Handles |-> None]
    /\ epoch = [e \in EngineIds |-> 0]
    /\ last = NoOp
    /\ heap = NoHeap
    /\ host_fn = None
    /\ calls = NoCalls

NextEnv ==
    \/ env_inherit_network \/ env_allow_tcp \/ env_allow_udp \/ env_socket_check
    \/ guest_socket

SpecEnv == InitEnv /\ [][NextEnv]_vars

\* ------------------------------------------------------------ a call, step by step
\* The places of a log with an event among names.
Evs(tr, names) == { i \in 1 .. Len(tr) : tr[i].ev \in names }

\* A step of call that is neither a guest event nor one of the bridge.
Mark(ev) == [ev |-> ev]

\* The events of an upcall, marked as such.
Upcalled(tr) == [i \in 1 .. Len(tr) |-> [tr[i] EXCEPT !.ev = "upcall:" \o @]]

\* call that writes its input before it looks the function up.
Module_call_write_first(h, name, input, alloc, ptr) ==
    LET wr == MemoryOps_write(h, unwrap(FnInput_to_bytes(input).val), MsgLen, alloc, ptr)
        tr == << Mark("to_bytes") >> \o wr.trace
    IN IF ~wr.res.ok THEN Outcome(wr.res, wr.m, tr)
       ELSE IF ~get_typed_func(PlainGuest, name).ok
       THEN Outcome(get_typed_func(PlainGuest, name), wr.m, tr)
       ELSE Outcome(wr.res, wr.m,
                    tr \o << Event("invoke", ptr % 2^PtrBits, MsgLen % 2^PtrBits) >>)

\* call that allocates the region of its input before it serializes it.
Module_call_write_alloc_first(h, name, input, alloc, ptr) ==
    IF ~get_typed_func(PlainGuest, name).ok
    THEN Outcome(get_typed_func(PlainGuest, name), h, << >>)
    ELSE
    LET wr == MemoryOps_write(h, unwrap(FnInput_to_bytes(input).val), MsgLen, alloc, ptr)
        tr == << wr.trace[1], Mark("to_bytes") >> \o Tail(wr.trace)
    IN IF ~wr.res.ok THEN Outcome(wr.res, wr.m, tr)
       ELSE Outcome(wr.res, wr.m,
                    tr \o << Event("invoke", ptr % 2^PtrBits, MsgLen % 2^PtrBits) >>)

\* Module::call / AsyncModule::call on an instantiated module whose guest has
\* the memory exports, up to the invocation of the export: get_typed_func,
\* input.to_bytes(), memory.write, func.call(input_ptr as u32, input_len as
\* u32).
Module_call_write(h, name, input, alloc, ptr) ==
    IF ~get_typed_func(PlainGuest, name).ok
    THEN Outcome(get_typed_func(PlainGuest, name), h, << >>)
    ELSE
    LET wr == MemoryOps_write(h, unwrap(FnInput_to_bytes(input).val), MsgLen, alloc, ptr)
        tr == << Mark("to_bytes") >> \o wr.trace
    IN IF ~wr.res.ok THEN Outcome(wr.res, wr.m, tr)
       ELSE Outcome(wr.res, wr.m,
                    tr \o << Event("invoke", ptr % 2^PtrBits, MsgLen % 2^PtrBits) >>)

\* call that frees the region it wrote before it reads the result.
Module_call_read_tidy(h, din, d, deallocTraps) ==
    LET freed == { r \in h : ~(r.ptr = unpack_ptr(din)[1] /\ r.len = unpack_ptr(din)[2]) }
        rd == MemoryOps_read(freed, unpack_ptr(d)[1], unpack_ptr(d)[2], deallocTraps)
        tr == << Mark("unpack_ptr"),
                 Event("guest_dealloc", unpack_ptr(din)[1], unpack_ptr(din)[2]) >> \o rd.trace
    IN IF ~rd.res.ok THEN Outcome(rd.res, rd.m, tr)
       ELSE IF ~FnResult_from_bytes(unwrap(rd.res.val)).ok
       THEN Outcome(Err("FunctionError: "
                          \o FnError_fmt(FnResult_from_bytes(unwrap(rd.res.val)).err)),
                    rd.m, tr \o << Mark("from_bytes") >>)
       ELSE Outcome(FnResult_from_bytes(unwrap(rd.res.val)), rd.m, tr \o << Mark("from_bytes") >>)

\* The rest of call, once the export has returned the descriptor d:
\* unpack_ptr, memory.read, FnResult::from_bytes.  din: the descriptor of the
\* input the call wrote.
Module_call_read(h, din, d, deallocTraps) ==
    LET rd == MemoryOps_read(h, unpack_ptr(d)[1], unpack_ptr(d)[2], deallocTraps)
        tr == << Mark("unpack_ptr") >> \o rd.trace
    IN IF ~rd.res.ok THEN Outcome(rd.res, rd.m, tr)
       ELSE IF ~FnResult_from_bytes(unwrap(rd.res.val)).ok
       THEN Outcome(Err("FunctionError: "
                          \o FnError_fmt(FnResult_from_bytes(unwrap(rd.res.val)).err)),
                    rd.m, tr \o << Mark("from_bytes") >>)
       ELSE Outcome(FnResult_from_bytes(unwrap(rd.res.val)), rd.m, tr \o << Mark("from_bytes") >>)

\* Any thread may start a call.
borrow_shared(cs, t) == TRUE

\* call(&mut self, ..): the caller holds the module exclusively, so no other
\* thread is inside a call on it.
borrow_mut(cs, t) == \A u \in Threads \ {t} : cs[u].at = "idle"

\* The inputs of the calls, the inputs the guest gives the import, and the
\* results the guest writes.
CallInputs == { FnInput_new, FnInput(Some(<< "7" >>), None) }
ImportBytes == { "{\"args\":[7]}", "garbage" }
ResultBytes ==
    { unwrap(FnResult_to_bytes(FnResult_Data(Some("7"))).val),
      unwrap(FnResult_to_bytes(
                 FnResult_Error(FnError_new("alloc::string::String", "boom"))).val),
      "garbage" }

\* While a call is in progress its result is not there.
Running == Ok([object |-> "running"])

\* A step of thread t's call: the position it moves to, the descriptor it
\* passes (of the input when the call enters the guest, of the result when
\* the guest returns), the memory after it, the step recorded and the log.
CallStep(t, at, d, pending, h, op, name, input, res, tr) ==
    /\ calls' = [calls EXCEPT ![t] = [at |-> at,
                                      din |-> IF calls[t].at = "idle" /\ at # "idle"
                                              THEN d
                                              ELSE IF at = "idle" THEN 0 ELSE @.din,
                                      d |-> IF at = "returned" THEN d ELSE 0,
                                      pending |-> pending]]
    /\ heap' = h
    /\ last' = Op(op, "-", name, input, t, res, tr)
    /\ UNCHANGED << host_fn, mbuilder, objs, epoch, variant, phase, builderVars, built,
                    poolVars >>

\* Thread t calls module.call(name, input) on a guest with nothing allocated:
\* the call runs up to the invocation of the export, or returns an error.
call_enter(t) ==
    /\ phase = "call"
    /\ calls[t].at = "idle"
    /\ borrow_mut(calls, t)
    /\ heap = NoHeap
    /\ \E name \in NameInputs, input \in CallInputs,
          alloc \in {"ok", "trap", "oob"}, ptr \in U32 :
         /\ alloc = "ok" => ptr \in SoundAllocs(heap, MsgLen)
         /\ alloc = "trap" => ptr = 0
         /\ alloc = "oob" => ~InBounds(ptr, MsgLen)
         /\ \E o \in { Module_call_write(heap, name, input, alloc, ptr) } :
              IF o.res.ok /\ o.trace # << >>
              THEN CallStep(t, "guest", pack_ptr(ptr, MsgLen), "", o.m,
                            "invoke", name, input, Running, o.trace)
              ELSE CallStep(t, "idle", 0, "", o.m, "call", name, input, o.res, o.trace)

\* The guest frees a region: its input, or the result of an import.
guest_free(t) ==
    /\ phase = "call"
    /\ calls[t].at = "guest"
    /\ \E r \in heap :
         CallStep(t, "guest", 0, "", heap \ {r}, "guest", last.name, last.args,
                  Running, last.trace \o << Event("guest.free", r.ptr, r.len) >>)

\* The export traps: func.call returns the error and call passes it on.
guest_trap(t) ==
    /\ phase = "call"
    /\ calls[t].at = "guest"
    /\ CallStep(t, "idle", 0, "", heap, "call", last.name, last.args,
                Err("WasmtimeError: trap"), last.trace \o << Mark("trap") >>)

\* The guest writes an input and calls the import, once per call: the
\* closure of into_func runs up to the result of the native function.  A
\* trap of the closure is a trap of the export.
guest_import(t) ==
    /\ phase = "call"
    /\ calls[t].at = "guest"
    /\ Evs(last.trace, {"import"}) = {}
    /\ \E bytes \in ImportBytes, ptr \in SoundAllocs(heap, MsgLen),
          exports \in BOOLEAN, deallocTraps \in BOOLEAN :
         \E o \in { into_func_input(unwrap(host_fn), heap \cup {Region(ptr, MsgLen, bytes)},
                                    pack_ptr(ptr, MsgLen), exports, deallocTraps) } :
            \E tr \in { last.trace
                        \o << Event("guest.alloc", ptr, MsgLen), Event("import", ptr, MsgLen) >>
                        \o Upcalled(o.trace) } :
               IF o.res.ok
               THEN CallStep(t, "upcall", 0, unwrap(o.res.val), o.m,
                             "import", last.name, last.args, Running, tr)
               ELSE CallStep(t, "idle", 0, "", o.m, "call", last.name, last.args,
                             Err("WasmtimeError: " \o o.res.err), tr \o << Mark("trap") >>)

\* The closure writes its result and returns the descriptor: the guest
\* resumes.
import_return(t) ==
    /\ phase = "call"
    /\ calls[t].at = "upcall"
    /\ \E alloc \in {"ok", "trap", "oob"}, ptr \in U32 :
         /\ alloc = "ok" => ptr \in SoundAllocs(heap, MsgLen)
         /\ alloc = "trap" => ptr = 0
         /\ alloc = "oob" => ~InBounds(ptr, MsgLen)
         /\ \E o \in { into_func_result(heap, calls[t].pending, alloc, ptr) } :
              IF o.res.ok
              THEN CallStep(t, "guest", 0, "", o.m, "resume", last.name, last.args,
                            Running,
                            last.trace \o Upcalled(o.trace)
                              \o << Event("import.return", ptr, MsgLen) >>)
              ELSE CallStep(t, "idle", 0, "", o.m, "call", last.name, last.args,
                            Err("WasmtimeError: " \o o.res.err),
                            last.trace \o Upcalled(o.trace) \o << Mark("trap") >>)

\* The export returns a descriptor: of a region it allocates and writes a
\* result to, of a region that is already there (its input, say), or 0.
guest_return(t) ==
    /\ phase = "call"
    /\ calls[t].at = "guest"
    /\ \/ \E bytes \in ResultBytes, ptr \in SoundAllocs(heap, MsgLen) :
            CallStep(t, "returned", pack_ptr(ptr, MsgLen), "",
                     heap \cup {Region(ptr, MsgLen, bytes)},
                     "return", last.name, last.args, Running,
                     last.trace \o << Event("guest.alloc", ptr, MsgLen),
                                      Event("return", ptr, MsgLen) >>)
       \/ \E d \in { pack_ptr(r.ptr, r.len) : r \in heap } \cup {0} :
            CallStep(t, "returned", d, "", heap, "return", last.name, last.args, Running,
                     last.trace \o << Event("return", unpack_ptr(d)[1], unpack_ptr(d)[2]) >>)

\* call goes on with the descriptor the export returned.
call_exit(t) ==
    /\ phase = "call"
    /\ calls[t].at = "returned"
    /\ \E deallocTraps \in BOOLEAN :
         \E o \in { Module_call_read(heap, calls[t].din, calls[t].d, deallocTraps) } :
            CallStep(t, "idle", 0, "", o.m, "call", last.name, last.args, o.res,
                     last.trace \o o.trace)

\* An instantiated module (sync or async) whose guest imports one host
\* function, and callers that share it.
InitCall ==
    /\ variant \in {"sync", "async"}
    /\ phase = "call"
    /\ NoPool
    /\ mbuilder = None
    /\ objs = [h \in Handles |-> None]
    /\ epoch = [e \in EngineIds |-> 0]
    /\ last = NoOp
    /\ heap = NoHeap
    /\ host_fn \in { Some(NativeFn(<< "i64" >>, ReturnsOk("7i64"))), Some(NativeFn(<< >>, Unit)) }
    /\ calls = NoCalls

NextCall ==
    \E t \in Threads :
        \/ call_enter(t) \/ guest_free(t) \/ guest_trap(t) \/ guest_import(t)
        \/ import_return(t) \/ guest_return(t) \/ call_exit(t)

SpecCall == InitCall /\ [][NextCall]_vars

\* ------------------------------------------------------------ properties
\* Where the instances of the pool are.
Holding == { t \in Threads : is_some(lease[t].module) }
Returning == { t \in Threads : is_some(arg[t]) }
QueuedIds == { modules[i].id : i \in 1..Len(modules) }
HeldIds == { unwrap(lease[t].module).id : t \in Holding }
ReturningIds == { unwrap(arg[t]).id : t \in Returning }

LeasePcs == {"lease_lock", "lease_check", "lease_wait", "lease_relock"}
TryPcs == {"try_lock", "try_check"}
ScopedEnded == {"returned", "unwound", "cancelled"}

\* C1 as stated: in every reachable state of a ModulePool built with count N,
\* the number of queued instances plus the number of leases holding an
\* instance is N.
C1_QueuedPlusHeld ==
    variant = "sync" => Len(modules) + Cardinality(Holding) = count

\* C1, amended: in every reachable state of a ModulePool built with count N,
\* the queued instances, the leases holding an instance and the instances
\* taken out of a lease by a release() or drop that has not pushed them back
\* yet add up to N.
C1_Conservation ==
    variant = "sync" =>
        Len(modules) + Cardinality(Holding) + Cardinality(Returning) = count

\* One thread holds a lease while another is between take() and push_back.
C1_Witness ==
    /\ variant = "sync"
    /\ Holding # {}
    /\ \E t \in Threads : pc[t] = "ret_lock" /\ is_some(arg[t])

\* C2: no instance is held by two leases, and none is both queued and held:
\* the instances in the deque, in the leases and in return_module calls in
\* progress are pairwise different objects.
C2_Exclusive ==
    /\ Cardinality(QueuedIds) = Len(modules)
    /\ Cardinality(HeldIds) = Cardinality(Holding)
    /\ Cardinality(ReturningIds) = Cardinality(Returning)
    /\ QueuedIds \cap HeldIds = {}
    /\ QueuedIds \cap ReturningIds = {}
    /\ HeldIds \cap ReturningIds = {}

\* Two leases are held at once: two threads each hold an instance.
C2_Witness ==
    /\ phase = "pool"
    /\ Cardinality(Holding) >= 2

\* C3: lease() never returns while the deque is empty.  A lease() call ends
\* with a lease only by taking the head of a non-empty deque (so with every
\* instance leased out it stays blocked until a return), it never panics on
\* an empty deque, and when no instance is leased out, in return or
\* destroyed, the deque holds all N instances again.
C3_LeaseBlocks ==
    /\ [](\A t \in Threads : pc[t] # "panicked")
    /\ []((Holding = {} /\ Returning = {} /\ leaked = {}) => Len(modules) = count)
    /\ [][\A t \in Threads :
            (pc[t] \in LeasePcs /\ lease'[t].st = "live") =>
                /\ ~is_empty(modules)
                /\ lease'[t].module = Some(Head(modules))
                /\ modules' = Tail(modules)]_vars

\* Saturation: every instance is leased out and a further lease() is blocked
\* in the condition variable.
C3_Witness ==
    /\ phase = "pool"
    /\ is_empty(modules)
    /\ Cardinality(Holding) = count
    /\ \E t \in waiters : pc[t] = "lease_wait"

\* C4: try_lease() never waits for an instance.  From its call to its return
\* the caller is never among the condition variable's waiters; under the lock
\* it returns None and leaves the deque as it is exactly when the deque is
\* empty, and otherwise returns a lease on the head, which it removes.
C4_TryLease ==
    [][\A t \in Threads :
         pc[t] \in TryPcs =>
            /\ t \notin waiters'
            /\ pc'[t] \in TryPcs \cup {"idle"}
            /\ (pc[t] = "try_check" /\ pc'[t] # "try_check") =>
                 IF is_empty(modules)
                 THEN /\ ret'[t] = "None"
                      /\ lease'[t].st = "none"
                      /\ modules' = modules
                 ELSE /\ ret'[t] = "Some"
                      /\ lease'[t].st = "live"
                      /\ lease'[t].module = Some(Head(modules))
                      /\ modules' = Tail(modules)]_vars

\* try_lease() returned None on an empty deque.
C4_Witness ==
    /\ variant = "sync"
    /\ is_empty(modules)
    /\ \E t \in Threads : pc[t] = "idle" /\ ret[t] = "None"

\* C5: a ModuleLease returns its instance exactly once.  Its instance is
\* pushed at most once; once the lease is dropped it was pushed exactly once,
\* also when release() had been called before; after release() the slot is
\* empty; and the deque never holds an instance twice.
C5_ReturnedOnce ==
    variant = "sync" =>
        /\ \A t \in Threads :
             /\ lease[t].pushes <= 1
             /\ lease[t].st = "dropped" => lease[t].pushes = 1
             /\ (lease[t].st = "live" /\ lease[t].rel /\ pc[t] = "idle") =>
                    (lease[t].pushes = 1 /\ lease[t].module = None)
        /\ Cardinality(QueuedIds) = Len(modules)

\* A lease that was released explicitly and then dropped.
C5_Witness ==
    /\ variant = "sync"
    /\ \E t \in Threads :
         /\ sc[t] = "none"
         /\ lease[t].st = "dropped"
         /\ lease[t].rel
         /\ lease[t].pushes = 1

\* C6: in AsyncModulePool a lease dropped without release() does not return
\* its instance.  Such a lease's instance was never pushed back; a destroyed
\* instance is never queued, held or in return again, and stays destroyed;
\* the instances still in circulation are N minus the destroyed ones; and
\* the deque grows only by the return_module of a release().
C6_AsyncDropLeaks ==
    /\ [](variant = "async" =>
            /\ \A t \in Threads :
                 (lease[t].st = "dropped" /\ ~lease[t].rel) => lease[t].pushes = 0
            /\ leaked \cap (QueuedIds \cup HeldIds \cup ReturningIds) = {}
            /\ Len(modules) + Cardinality(Holding) + Cardinality(Returning)
                 + Cardinality(leaked) = count)
    /\ [][variant = "async" =>
            /\ leaked \subseteq leaked'
            /\ Len(modules') > Len(modules) =>
                 \E t \in Threads : pc[t] = "ret_push" /\ lease[t].rel]_vars

\* An AsyncModuleLease was dropped without release(): nothing is leased out
\* any more and the deque is one instance short.
C6_Witness ==
    /\ variant = "async"
    /\ Holding = {} /\ Returning = {}
    /\ Len(modules) = count - 1
    /\ \E t \in Threads :
         /\ sc[t] = "none"
         /\ lease[t].st = "dropped"
         /\ ~lease[t].rel
         /\ lease[t].pushes = 0

\* C7: scoped(f) always returns the leased instance.  In every state where a
\* scoped call that had leased an instance has ended (f returned, f unwound,
\* or the scoped future was dropped), the instance was pushed back.
C7_ScopedAlwaysReturns ==
    \A t \in Threads :
        (sc[t] \in ScopedEnded /\ lease[t].st # "none") => lease[t].pushes = 1

\* C8: FIFO.  The deque changes only by appending the returned instance at
\* its back or by removing its head, which is the instance the lease gets.
C8_Fifo ==
    [][modules' # modules =>
         \/ \E t \in Threads :
              /\ is_some(arg[t])
              /\ modules' = Append(modules, unwrap(arg[t]))
         \/ \E t \in Threads :
              /\ ~is_empty(modules)
              /\ modules' = Tail(modules)
              /\ lease[t].st = "none"
              /\ lease'[t].module = Some(Head(modules))]_vars

\* Returns have reordered the deque: the template, which build puts last, is
\* at the head with another instance queued behind it.
C8_Witness ==
    /\ phase = "pool"
    /\ Len(modules) >= 2
    /\ modules[1].origin = "template"

\* C9: build with count == 0 fails, whatever template or builder was given,
\* produces no pool and instantiates nothing.
C9_ZeroCountFails ==
    (phase # "builder" /\ count = 0) =>
        /\ phase = "failed"
        /\ built.err = "InstantiationError: count"
        /\ built.calls = 0
        /\ modules = << >>

\* build failed on count == 0 although a template and a builder were given.
C9_Witness ==
    /\ phase = "failed"
    /\ count = 0
    /\ is_some(template)
    /\ is_some(builder)

\* C10: a pool built from an instantiated template with count N holds exactly
\* N instantiated instances: N-1 clones, each instantiated by build, followed
\* by the template itself.
C10_TemplatePool ==
    (phase = "pool" /\ is_some(template) /\ is_instantiated(unwrap(template))) =>
        /\ Len(modules) = count
        /\ \A i \in 1..Len(modules) :
             is_instantiated(modules[i]) /\ modules[i].store
        /\ \A i \in 1..(Len(modules) - 1) : modules[i].origin = "clone"
        /\ modules[Len(modules)] = unwrap(template)
        /\ Cardinality(QueuedIds) = count
        /\ built.calls = count - 1

\* A pool of more than one instance built from an instantiated template.
C10_Witness ==
    /\ phase = "pool"
    /\ is_some(template)
    /\ is_instantiated(unwrap(template))
    /\ count > 1

\* C11: pool construction is fail-fast.  When an instantiation made by build
\* fails (the failAt-th one, and build got as far as making it), build returns
\* that error, no pool is produced, and the failing instantiation is the last
\* one build attempted, from a template and from a builder alike.
C11_FailFast ==
    (phase # "builder" /\ built.failAt >= 1 /\ built.calls >= built.failAt) =>
        /\ phase = "failed"
        /\ built.err = "InstantiationError"
        /\ modules = << >>
        /\ built.calls = built.failAt

\* The first of several instantiations failed: build stopped with instances
\* still to make.
C11_Witness ==
    /\ phase = "failed"
    /\ built.failAt = 1
    /\ built.calls = 1
    /\ count >= 2

\* ------------------------------------------------ properties of the module
\* The object the last operation was on, when the caller still has it.
LastObj == objs[last.h]

\* The place of event e in the trace of the last operation, 0 when absent.
Pos(e) ==
    IF \E i \in 1..Len(last.trace) : last.trace[i] = e
    THEN CHOOSE i \in 1..Len(last.trace) : last.trace[i] = e
    ELSE 0

\* The binary of the scenario.
Guest == unwrap(mbuilder.binary)

\* C12 as stated: after instantiate returned AlreadyInstantiated the module is
\* as the first instantiate left it: the caller has it, it is instantiated and
\* it has its store, so that it can be called.
C12_StillInstantiated ==
    (last.op = "instantiate" /\ last.res.err = "AlreadyInstantiated") =>
        /\ is_some(LastObj)
        /\ Module_is_instantiated(unwrap(LastObj))
        /\ is_some(unwrap(LastObj).store)

\* C13 as stated: call and typed_call on a module that has no live instance
\* return NotInstantiated and cause no guest allocation, write or invocation.
C13_NotInstantiated ==
    (last.op \in {"call", "typed_call"} /\ ~Module_is_instantiated(unwrap(LastObj))) =>
        /\ last.res.err = "NotInstantiated"
        /\ last.trace = << >>

\* C13, amended: on a module that has no live instance call returns
\* NotInstantiated, typed_call returns NotInstantiated when its arguments
\* convert to an FnInput and the conversion's SerializationError when they do
\* not; in every case there is no guest allocation, write or invocation.
C13_NotInstantiatedOrArgs ==
    (last.op \in {"call", "typed_call"} /\ ~Module_is_instantiated(unwrap(LastObj))) =>
        /\ last.trace = << >>
        /\ last.args # "bad" => last.res.err = "NotInstantiated"
        /\ last.args = "bad" => last.res.err = "FunctionError: SerializationError"

\* typed_call with convertible arguments on a clone of an instantiated module
\* (it has the engine, no store) returned NotInstantiated.
C13_Witness ==
    /\ last.op = "typed_call"
    /\ last.h = "b"
    /\ last.args = "ok"
    /\ is_some(unwrap(objs["b"]).engine)
    /\ ~Module_is_instantiated(unwrap(objs["b"]))
    /\ last.res.err = "NotInstantiated"

\* C14: a clone of an instantiated module holds the same engine, the linker
\* and the pre-instance, has no store and no instance, and leaves the original
\* as it was; instantiating a module that holds an engine and a pre-instance
\* creates no engine and compiles nothing, keeps the engine it has, and leaves
\* the other module as it was.
C14_CloneIsPreInstantiated ==
    [][ /\ (objs["b"] = None /\ objs'["b"] # None /\ is_some(objs["a"])
            /\ Module_is_instantiated(unwrap(objs["a"]))) =>
              LET c == unwrap(objs'["b"])
                  m == unwrap(objs["a"])
              IN /\ c.engine = m.engine
                 /\ is_some(c.engine)
                 /\ c.linker
                 /\ c.instance_pre
                 /\ c.store = None
                 /\ ~Module_is_instantiated(c)
                 /\ objs'["a"] = objs["a"]
        /\ \A h \in Handles :
             (last'.op = "instantiate" /\ last'.h = h /\ is_some(objs[h])
              /\ is_some(unwrap(objs[h]).engine)
              /\ ~Module_is_instantiated(unwrap(objs[h]))) =>
                /\ \A i \in 1..Len(last'.trace) :
                     last'.trace[i] \notin {"Engine::new", "from_binary"}
                /\ last'.res.ok =>
                     /\ Module_is_instantiated(unwrap(objs'[h]))
                     /\ unwrap(objs'[h]).engine = unwrap(objs[h]).engine
                /\ \A g \in Handles \ {h} : objs'[g] = objs[g]
      ]_vars

\* The clone of an instantiated module was instantiated, next to the original.
C14_Witness ==
    /\ last.op = "instantiate"
    /\ last.h = "b"
    /\ last.res.ok
    /\ last.trace[1] = "instantiate"
    /\ is_some(objs["a"])
    /\ Module_is_instantiated(unwrap(objs["a"]))
    /\ Module_is_instantiated(unwrap(objs["b"]))
    /\ unwrap(objs["a"]).engine = unwrap(objs["b"]).engine

\* C15: in every instantiate, _initialize and initialize are invoked only
\* after the instance was materialized, _initialize (directly) before
\* initialize (whose input was allocated and written first); an instantiate
\* that returns Ok has invoked every initializer the guest exports; and guest
\* code runs for a call only on a module that an instantiate has returned.
C15_InitializerOrder ==
    /\ last.op = "instantiate" =>
          /\ Pos("_initialize") > 0 => Pos("instantiate") > 0
                                        /\ Pos("instantiate") < Pos("_initialize")
          /\ Pos("initialize") > 0 =>
                /\ Pos("instantiate") > 0
                /\ Pos("instantiate") < Pos("initialize")
                /\ last.trace[Pos("initialize") - 1] = "write"
                /\ last.trace[Pos("initialize") - 2] = "guest_alloc"
                /\ "_initialize" \in Guest.exports =>
                      Pos("_initialize") > 0
                      /\ Pos("_initialize") < Pos("initialize") - 2
          /\ last.res.ok =>
                /\ "_initialize" \in Guest.exports => Pos("_initialize") > 0
                /\ "initialize" \in Guest.exports => Pos("initialize") > 0
    /\ (last.op \in {"call", "typed_call"} /\ last.trace # << >>) =>
          Module_is_instantiated(unwrap(LastObj))

\* instantiate returned Ok for a guest that exports both initializers.
C15_Witness ==
    /\ last.op = "instantiate"
    /\ last.res.ok
    /\ Pos("_initialize") > 0
    /\ Pos("initialize") > Pos("_initialize")

\* The guest exports neither initializer.
NoInitializer(g) == g.exports \cap {"_initialize", "initialize"} = {}

\* With behaviour beh an initializer that guest g exports fails: _initialize
\* traps, or initialize (reached through the ABI) has its allocation, its
\* run or the release of its result fail, or returns anything but a data
\* result holding null.
InitializerFails(g, beh) ==
    \/ "_initialize" \in g.exports /\ beh.init = "trap"
    \/ /\ "initialize" \in g.exports
       /\ MemoryAbi \subseteq g.exports
       /\ (beh.alloc # "ok" \/ beh.fn # "data_null" \/ beh.dealloc # "ok")

C17_FunctionNotFound ==
    (last.op = "call" /\ Module_is_instantiated(unwrap(LastObj))
     /\ last.name \notin Guest.exports) =>
        /\ last.res.err = "FunctionNotFound: " \o last.name
        /\ last.trace = << >>

\* call of a name that the guest does not export, on an instantiated module.
C17_Witness ==
    /\ last.op = "call"
    /\ last.name = "nope"
    /\ Module_is_instantiated(unwrap(LastObj))
    /\ ~last.res.ok

\* C18: build and build_async fail with InvalidModuleConfig, producing no
\* module, when the binary or the name was not provided; otherwise they
\* produce a module that is not instantiated (no engine, no store, no
\* instance) whose namespace is the provided one, or "env" when none was set.
C18_BuilderRequires ==
    last.op = "build" =>
        IF mbuilder.binary = None \/ mbuilder.name = None
        THEN /\ last.res.err \in {"InvalidModuleConfig: Binary not provided",
                                   "InvalidModuleConfig: Name not provided"}
             /\ LastObj = None
        ELSE /\ last.res.ok
             /\ is_some(LastObj)
             /\ ~Module_is_instantiated(unwrap(LastObj))
             /\ unwrap(LastObj).engine = None
             /\ unwrap(LastObj).store = None
             /\ unwrap(LastObj).name = unwrap(mbuilder.name)
             /\ unwrap(LastObj).namespace =
                  (IF mbuilder.namespace = None THEN "env" ELSE unwrap(mbuilder.namespace))

\* A module was built by a builder that had no namespace set.
C18_Witness ==
    /\ last.op = "build"
    /\ last.res.ok
    /\ mbuilder.namespace = None
    /\ unwrap(LastObj).namespace = "env"

\* The preemption controls.
PreemptionOps == {"set_fuel", "get_fuel", "set_epoch_deadline", "increment_epoch"}

\* C19 as stated: on a module that is not instantiated (a clone of an
\* instantiated module included) set_fuel, get_fuel, set_epoch_deadline and
\* increment_epoch each return NotInstantiated.
C19_OnlyAfterInstantiate ==
    (last.op \in PreemptionOps /\ ~Module_is_instantiated(unwrap(LastObj))) =>
        last.res.err = "NotInstantiated"

\* C20 as stated: on an instantiated module whose config has fuel consumption
\* off set_fuel and get_fuel return FuelNotEnabled, and with it on they
\* succeed.
C20_FuelFollowsConfig ==
    (last.op \in {"set_fuel", "get_fuel"} /\ Module_is_instantiated(unwrap(LastObj))) =>
        IF unwrap(LastObj).config.consume_fuel THEN last.res.ok
        ELSE last.res.err = "FuelNotEnabled"

\* C20, amended: on an instantiated Module whose config has fuel consumption
\* off set_fuel and get_fuel return FuelNotEnabled and leave the module, store
\* included, as it was; on a Module with fuel consumption on, and on every
\* AsyncModule whatever its config, set_fuel succeeds and sets the store's
\* fuel, and get_fuel succeeds, returns the store's fuel and changes nothing.
C20_FuelFollowsEngine ==
    [][ \A h \in Handles :
          (last'.op \in {"set_fuel", "get_fuel"} /\ last'.h = h /\ is_some(objs[h])
           /\ Module_is_instantiated(unwrap(objs[h]))) =>
             LET m == unwrap(objs[h])
             IN /\ epoch' = epoch
                /\ \A g \in Handles \ {h} : objs'[g] = objs[g]
                /\ IF variant = "sync" /\ ~m.config.consume_fuel
                   THEN last'.res.err = "FuelNotEnabled" /\ objs' = objs
                   ELSE /\ last'.res.ok
                        /\ last'.op = "set_fuel" =>
                              objs'[h] = Some([m EXCEPT !.store =
                                  Some([unwrap(m.store) EXCEPT !.fuel = last'.n])])
                        /\ last'.op = "get_fuel" =>
                              /\ last'.res.val = Some(unwrap(m.store).fuel)
                              /\ objs' = objs
      ]_vars

\* set_fuel was refused on an instantiated Module with fuel consumption off.
C20_Witness ==
    /\ variant = "sync"
    /\ last.op = "set_fuel"
    /\ Module_is_instantiated(unwrap(LastObj))
    /\ ~unwrap(LastObj).config.consume_fuel
    /\ last.res.err = "FuelNotEnabled"

\* ---- C21
\* The fuel of m's store, and whether its engine consumes fuel.
FuelOf(m) == unwrap(m.store).fuel
FuelOn(m) == is_some(m.store) /\ unwrap(m.engine).consume_fuel

\* The step is the operation op.
Step(op) ==
    last'.op = op /\ (last' # last \/ objs' # objs \/ epoch' # epoch \/ heap' # heap)

\* The invocations of guest code a call went into, the one that trapped
\* included.
Attempted(trace) ==
    Cardinality({ i \in DOMAIN trace : trace[i] \in {"guest_alloc", "f", "guest_dealloc"} })

\* The call of this step went into more guest code than the fuel of its
\* store covered.
FuelRanOut ==
    /\ Step("call")
    /\ FuelOn(unwrap(objs[last'.h]))
    /\ FuelOf(unwrap(objs[last'.h])) < Attempted(last'.trace) * InvocationCost

\* C21 as stated: with fuel on, get_fuel right after set_fuel(n) returns n,
\* a call that needs more fuel than is left returns the engine's trap as its
\* error and never a result, and no call raises the fuel.
C21_TrapSurfaced ==
    [][ /\ (last.op = "set_fuel" /\ last.res.ok /\ Step("get_fuel") /\ last'.h = last.h)
            => last'.res = Ok(last.n)
        /\ FuelRanOut => (~last'.res.ok /\ last'.res.err = "WasmtimeError")
        /\ (Step("call") /\ FuelOn(unwrap(objs[last'.h])))
            => FuelOf(unwrap(objs'[last'.h])) <= FuelOf(unwrap(objs[last'.h])) ]_vars

\* C21 amended: with fuel on, get_fuel right after set_fuel(n) returns n; a
\* call that needs more fuel than is left never returns a result: its error
\* is the engine's error when the fuel ran out in the exported function and
\* a memory error when it ran out in guest_alloc or guest_dealloc; and no
\* call raises the fuel.
C21_FuelBudget ==
    [][ /\ (last.op = "set_fuel" /\ last.res.ok /\ Step("get_fuel") /\ last'.h = last.h)
            => last'.res = Ok(last.n)
        /\ FuelRanOut =>
              /\ ~last'.res.ok
              /\ last'.res.err =
                    IF last'.trace[Len(last'.trace)] = "f" THEN "WasmtimeError"
                    ELSE "MemoryError"
        /\ (Step("call") /\ FuelOn(unwrap(objs[last'.h])))
            => FuelOf(unwrap(objs'[last'.h])) <= FuelOf(unwrap(objs[last'.h])) ]_vars

\* A call on a sync module with fuel on has ended in guest_dealloc with a
\* memory error and an empty tank.
C21_Witness ==
    /\ variant = "sync"
    /\ last.op = "call"
    /\ last.res = Err("MemoryError")
    /\ last.trace = << "guest_alloc", "write", "f", "read", "guest_dealloc" >>
    /\ FuelOn(unwrap(LastObj)) /\ FuelOf(unwrap(LastObj)) = 0

\* ---- C22
\* C22: an AsyncModule consumes fuel whatever ModuleConfig.consume_fuel
\* says: on an instantiated one set_fuel and get_fuel do not return
\* FuelNotEnabled, instantiate leaves the store with u64::MAX fuel, and the
\* fuel-yield interval of the store is the builder's, or 10,000 when the
\* builder set none.
C22_AsyncFuelOn ==
    variant = "async" =>
        /\ \A h \in Handles :
              (is_some(objs[h]) /\ is_some(unwrap(objs[h]).store)) =>
                  /\ FuelOn(unwrap(objs[h]))
                  /\ unwrap(unwrap(objs[h]).store).yield_interval =
                        IF is_some(mbuilder.fuel_yield_interval)
                        THEN mbuilder.fuel_yield_interval ELSE Some(10000)
        /\ (last.op \in {"set_fuel", "get_fuel"} /\ is_some(unwrap(LastObj).store))
              => last.res.ok
        /\ (last.op = "instantiate" /\ last.res.ok) => FuelOf(unwrap(LastObj)) = U64_MAX

\* An AsyncModule built with the default config (fuel off) and no interval
\* has been instantiated and its fuel read.
C22_Witness ==
    /\ variant = "async"
    /\ mbuilder.config = None /\ mbuilder.fuel_yield_interval = None
    /\ last.op = "get_fuel"
    /\ last.res = Ok(U64_MAX)
    /\ unwrap(unwrap(LastObj).store).yield_interval = Some(10000)

\* ---- C23
\* The instances: the handles whose module has a store.
Instances == { h \in Handles : is_some(objs[h]) /\ is_some(unwrap(objs[h]).store) }

\* Whether one of the three invocations of guest code that a call makes
\* (guest_alloc, the function, guest_dealloc) would trap in m's store.
CallTraps(m) ==
    \E a \in {guest_run(m, FALSE, InvocationCost)} :
        a.trap \/ \E f \in {guest_run(a.m, FALSE, InvocationCost)} :
                      f.trap \/ guest_run(f.m, FALSE, InvocationCost).trap

\* What the holder of instance g can observe of its sandbox: the fuel, the
\* epoch, and whether a call whose guest code is sound would trap.
Sandbox(g) ==
    LET m == unwrap(objs[g])
    IN [fuel |-> FuelOf(m), epoch |-> EpochOf(m), traps |-> CallTraps(m)]

\* The step is one of the preemption controls.
ControlStep == Step("set_fuel") \/ Step("set_epoch_deadline") \/ Step("increment_epoch")

EngineOf(h) == unwrap(objs[h]).engine

\* C23 as stated: set_fuel, set_epoch_deadline and increment_epoch on one
\* instance never change the fuel, the epoch, or whether a call traps, of a
\* different instance.
C23_Independent ==
    [][ ControlStep =>
          \A g \in Instances \ {last'.h} : Sandbox(g)' = Sandbox(g) ]_vars

\* What holds of C23: set_fuel and set_epoch_deadline on one instance never
\* change the fuel, the epoch, or whether a call traps, of a different
\* instance; increment_epoch never changes them on an instance of a different
\* engine.
C23_IndependentStores ==
    [][ ControlStep =>
          \A g \in Instances \ {last'.h} :
              (last'.op # "increment_epoch" \/ EngineOf(g) # EngineOf(last'.h))
                  => Sandbox(g)' = Sandbox(g) ]_vars

\* Two instances of one engine with fuel off, b a clone of a with its
\* deadline one tick ahead: a's increment_epoch has made b's calls trap.
C23_Witness ==
    /\ Instances = Handles
    /\ EngineOf("a") = EngineOf("b")
    /\ ~FuelOn(unwrap(objs["b"]))
    /\ last.op = "increment_epoch" /\ last.h = "a" /\ last.res.ok
    /\ unwrap(unwrap(objs["b"]).store).deadline = 1
    /\ Sandbox("b") = [fuel |-> 0, epoch |-> 1, traps |-> TRUE]

\* ---- C24
\* C24: for every ptr and len below 2^32, pack_ptr(ptr, len) is
\* (ptr << 32) | len, which is ptr * 2^32 + len, and unpack_ptr gives (ptr, len)
\* back from it; and for every 64-bit descriptor d, pack_ptr of unpack_ptr(d)
\* is d.
C24_RoundTrip ==
    /\ (last.trace = << "pack_ptr" >> /\ last.args[2] \in U32)
          => Held = << last.args[1] * 2^PtrBits + last.args[2] >>
    /\ (last.trace = << "pack_ptr", "unpack_ptr" >> /\ last.args[2] \in U32)
          => Held = last.args
    /\ last.trace = << "unpack_ptr", "pack_ptr" >> => Held = last.args

\* A pointer and a length with all their bits set have gone through pack_ptr
\* and unpack_ptr.
C24_Witness ==
    /\ last.trace = << "pack_ptr", "unpack_ptr" >>
    /\ last.args = << 2^PtrBits - 1, 2^PtrBits - 1 >>
    /\ Held = last.args

\* ---- C25
\* C25: a read with ptr = 0 or len = 0 returns MemoryError and touches
\* nothing of the guest: no memory.read, no guest_dealloc, the allocations as
\* they were (MemoryOps and AsyncMemoryOps alike).
C25_DegenerateRead ==
    [][ (Step("read") /\ (last'.args[1] = 0 \/ last'.args[2] = 0)) =>
          /\ last'.res = Err("MemoryError: Null pointer or zero length")
          /\ last'.trace = << >>
          /\ heap' = heap ]_vars

\* A read of length 0 at the address of a live allocation has been refused.
C25_Witness ==
    /\ last.op = "read" /\ last.args[1] # 0 /\ last.args[2] = 0
    /\ ~last.res.ok
    /\ \E r \in heap : r.ptr = last.args[1]

C29_CodecRoundTrip ==
    last.op = "from_bytes" =>
        /\ last.res.ok
        /\ unwrap(last.res.val) = last.args

\* FnResult::ok(()) has gone through to_bytes and from_bytes.
C29_Witness ==
    /\ last.op = "from_bytes" /\ Kind = "FnResult"
    /\ last.args = FnResult_Data(Some("null"))
    /\ last.res = Ok(FnResult_Data(None))

\* ---- C30
\* C30: in the bytes to_bytes returns, a field that was omitted is absent and
\* never null: a FnInput without args (kwargs) has no "args" ("kwargs")
\* member, and FnResult::none() has no null-valued "value" member.
C30_OmittedAbsent ==
    last.op = "to_bytes" /\ last.res.ok =>
        IF Kind = "FnInput"
        THEN \A doc \in InputDocOf(unwrap(last.res.val)) :
               /\ last.args.args = None => doc.args_is = "absent"
               /\ last.args.kwargs = None => doc.kwargs_is = "absent"
        ELSE \A doc \in ResultDocOf(unwrap(last.res.val)) :
               last.args = FnResult_none => doc.value_is # "null"

\* FnResult::none() has been encoded.
C30_Witness ==
    /\ last.op = "to_bytes" /\ Kind = "FnResult"
    /\ last.args = FnResult_none
    /\ last.res = Ok("{\"object\":\"data\",\"value\":null}")

\* ---- C27
\* The FnInput behind descriptor d in the memory h, as from_bytes gives it,
\* and the FnResult likewise.
InputBehind(h, d) == FnInput_from_bytes(BytesAt(h, unpack_ptr(d)[1], unpack_ptr(d)[2]))
ResultBehind(h, d) == FnResult_from_bytes(BytesAt(h, unpack_ptr(d)[1], unpack_ptr(d)[2]))

\* d names a live region of h, with neither half zero.
ValidDescriptor(h, d) ==
    /\ unpack_ptr(d)[1] # 0 /\ unpack_ptr(d)[2] # 0
    /\ \E r \in h : r.ptr = unpack_ptr(d)[1] /\ r.len = unpack_ptr(d)[2]

\* The guest calls the import in this step, with a descriptor of a FnInput.
Upcall ==
    /\ last.op \in {"none", "put"} /\ last'.op = "host_fn"
    /\ InputBehind(heap, last'.args[1]).ok

\* Serving the input fails: an argument is missing or does not deserialize,
\* or the native function returns Err.
ServingFails(f, input) ==
    \/ ~from_fn_input(input, f.params).ok
    \/ f.returned.kind = "err"

\* The upcall returned a valid descriptor of a serialized FnResult::Error.
ErrorDelivered ==
    /\ last'.res.ok
    /\ ValidDescriptor(heap', unwrap(last'.res.val)[1])
    /\ ResultBehind(heap', unwrap(last'.res.val)[1]).ok
    /\ unwrap(ResultBehind(heap', unwrap(last'.res.val)[1]).val).object = "error"

\* The traps of the marshalling path of into_func.
MarshallingTraps ==
    { "MemoryError: failed to find memory export", "MemoryError: Guest dealloc failed",
      "MemoryError: Guest alloc failed", "MemoryError: Memory write failed" }

\* C27 as stated: when serving a guest's call fails (the native function
\* returns Err, an argument is missing, an argument does not deserialize), the
\* upcall returns a valid descriptor of a serialized FnResult::Error and is
\* never a trap.
C27_NeverTraps ==
    [][ Upcall /\ ServingFails(unwrap(host_fn), unwrap(InputBehind(heap, last'.args[1]).val))
        => ErrorDelivered ]_vars

\* C27, amended: in these cases the upcall either returns a valid descriptor
\* of a serialized FnResult::Error, or it traps with an error of the
\* marshalling path (the memory exports, guest_dealloc of the input,
\* guest_alloc or the write of the result): the error of the function is
\* never the trap.
C27_ErrorsDelivered ==
    [][ Upcall /\ ServingFails(unwrap(host_fn), unwrap(InputBehind(heap, last'.args[1]).val))
        => \/ ErrorDelivered
           \/ ~last'.res.ok /\ last'.res.err \in MarshallingTraps ]_vars

\* A native function returned Err("boom") and the guest holds the descriptor
\* of the FnResult::Error made of it.
C27_Witness ==
    /\ last.op = "host_fn" /\ last.res.ok
    /\ unwrap(host_fn).returned.kind = "err"
    /\ ValidDescriptor(heap, unwrap(last.res.val)[1])
    /\ ResultBehind(heap, unwrap(last.res.val)[1]).ok
    /\ unwrap(ResultBehind(heap, unwrap(last.res.val)[1]).val)
         = FnResult_Error(FnError_new("alloc::string::String", "boom"))

\* ---- C28
\* The number of positional arguments of an input.
ArgCount(input) == IF input.args = None THEN 0 ELSE Len(unwrap(input.args))

\* C28: when a host function of n parameters is called with k < n positional
\* arguments (each of the type asked for) and the upcall returns, the guest
\* finds FnResult::Error with type "MissingArg" and message "Missing arg in
\* position k".
C28_MissingArg ==
    [][ /\ Upcall
        /\ last'.res.ok
        /\ LET input == unwrap(InputBehind(heap, last'.args[1]).val)
               k == ArgCount(input)
           IN /\ k < Len(unwrap(host_fn).params)
              /\ from_fn_input(input, SubSeq(unwrap(host_fn).params, 1, k)).ok
        => /\ ResultBehind(heap', unwrap(last'.res.val)[1]).ok
           /\ unwrap(ResultBehind(heap', unwrap(last'.res.val)[1]).val)
                = FnResult_Error(FnError_new(
                      "MissingArg",
                      "Missing arg in position "
                        \o ToString(ArgCount(unwrap(InputBehind(heap, last'.args[1]).val)))))
      ]_vars

\* The guest has read the result of a call that lacked the argument at
\* position 1: the error's type is the name of the Rust type FnError, and its
\* message begins with the type the spec asks for.
C28_Witness ==
    /\ last.op = "take" /\ last.res.ok
    /\ Len(unwrap(host_fn).params) = 2
    /\ unwrap(last.res.val)
         = FnResult_Error(FnError_new("binmod_core::error::FnError",
                                      "MissingArg: Missing arg in position 1"))

\* ---- C31
\* C31: a socket operation of kind k on address a is permitted only if the
\* configured socket_check is true for (a, k), whatever the families allow,
\* and every time the predicate is asked it is asked about (a, k), the
\* address and the kind the engine reported.
C31_SocketCheck ==
    last.op = "socket" =>
        /\ unwrap(last.res.val) =>
             << last.args[1], ModuleSocketAddrAction(last.args[2]) >> \in Env.network.socket_check
        /\ \A i \in 1 .. Len(last.trace) :
             /\ last.trace[i][1] = last.args[1]
             /\ last.trace[i][2].kind = last.args[2]

\* The guest tried to connect to 127.0.0.1:80 with TCP allowed and a
\* predicate that is false for that pair only: the predicate was asked and the
\* operation was refused.
C31_Witness ==
    /\ last.op = "socket" /\ last.args = << "127.0.0.1:80", "TcpConnect" >>
    /\ Env.network.allow_tcp
    /\ Env.network.socket_check
         = AllPairs \ { << "127.0.0.1:80", ModuleSocketAddrAction("TcpConnect") >> }
    /\ Len(last.trace) = 1
    /\ last.res = Ok(FALSE)

\* ---- C35
\* C35: in an upcall, the adapter reads and deallocates the input region
\* before any argument is extracted and before the native function runs; the
\* native function runs at most once, after every extraction; guest_alloc and
\* the write of the result come after all of that; the arguments are extracted
\* at the indices 0, 1, 2, ... in this order; and when an extraction fails the
\* native function does not run.
C35_AdapterOrder ==
    [][ Upcall =>
        LET tr == last'.trace
            served == Evs(tr, {"get_arg", "native"})
            extracted == Evs(tr, {"get_arg"})
        IN /\ \A i \in served, j \in Evs(tr, {"memory.read", "guest_dealloc"}) : j < i
           /\ served # {} => Evs(tr, {"memory.read"}) # {} /\ Evs(tr, {"guest_dealloc"}) # {}
           /\ Cardinality(Evs(tr, {"native"})) <= 1
           /\ \A i \in extracted, j \in Evs(tr, {"native"}) : i < j
           /\ \A i \in served, j \in Evs(tr, {"guest_alloc", "memory.write"}) : i < j
           /\ \A i \in extracted :
                tr[i].index = Cardinality({ j \in extracted : j < i })
           /\ ~from_fn_input(unwrap(InputBehind(heap, last'.args[1]).val),
                             unwrap(host_fn).params).ok
                => Evs(tr, {"native"}) = {}
      ]_vars

\* An upcall whose second argument could not be extracted: both get_arg
\* calls are in the log, the run of the native function is not, and the
\* result was written.
C35_Witness ==
    /\ last.op = "host_fn" /\ last.res.ok
    /\ \E i \in 1 .. Len(last.trace) : last.trace[i] = Extract(1)
    /\ Evs(last.trace, {"native"}) = {}
    /\ Evs(last.trace, {"memory.write"}) # {}

\* C39: when call fails with FunctionNotFound the guest memory is as it was
\* before the call and the call has no event: no guest_alloc was issued,
\* nothing was written and the guest was not invoked.
C39_NotFoundUntouched ==
    [][ (last'.op = "call" /\ last'.res.err = "FunctionNotFound: " \o last'.name)
          => heap' = heap /\ last'.trace = << >> ]_vars

\* A call of a name the guest does not export has returned FunctionNotFound.
C39_Witness ==
    /\ last.op = "call" /\ last.name = "nope"
    /\ last.res.err = "FunctionNotFound: nope"
    /\ \A t \in Threads : calls[t].at = "idle"

\* The steps of call itself, as the log names them.
CallSteps ==
    << "to_bytes", "guest_alloc", "memory.write", "invoke",
       "unpack_ptr", "memory.read", "guest_dealloc", "from_bytes" >>

\* The events of the log that call itself issued: not the guest's, not those
\* of an upcall.
OwnEvents(tr) == SelectSeq(tr, LAMBDA e : \E i \in 1 .. Len(CallSteps) : e.ev = CallSteps[i])

\* The last call was successful.
CallSucceeded == last.op = "call" /\ last.res.ok

\* The steps of the last call are those of CallSteps, in this order: the
\* export was invoked with the (ptr, len) of the input written, everything
\* the guest did lies between the invocation and unpack_ptr, and the region
\* read and freed is the one of the descriptor the guest returned.
CallInOrder ==
    LET tr == last.trace
        own == OwnEvents(tr)
    IN /\ [i \in 1 .. Len(own) |-> own[i].ev] = CallSteps
       /\ own[4].ptr = own[3].ptr /\ own[4].len = own[3].len
       /\ own[7].ptr = own[6].ptr /\ own[7].len = own[6].len
       /\ \A i \in 1 .. Len(tr) :
            (\A k \in 1 .. Len(CallSteps) : tr[i].ev # CallSteps[k])
              => /\ \A j \in Evs(tr, {"invoke"}) : j < i
                 /\ \A j \in Evs(tr, {"unpack_ptr"}) : i < j
       /\ \E i \in Evs(tr, {"return"}) :
            /\ tr[i].ptr = own[6].ptr /\ tr[i].len = own[6].len
            /\ Evs(tr, {"return"}) = {i}

\* C34 as stated: a successful call performs its steps in the order given
\* and the host issues exactly one guest_alloc and exactly one guest_dealloc
\* during the call, those of an upcall's closure counted.
C34_OneAllocOneDealloc ==
    CallSucceeded =>
        /\ CallInOrder
        /\ Cardinality(Evs(last.trace, {"guest_alloc", "upcall:guest_alloc"})) = 1
        /\ Cardinality(Evs(last.trace, {"guest_dealloc", "upcall:guest_dealloc"})) = 1

\* C34: a successful call performs, in this order: to_bytes, guest_alloc and
\* the write of the input, the invocation with the (ptr, len) written,
\* unpack_ptr, the read and guest_dealloc of the region the guest returned,
\* from_bytes.  call itself issues exactly one guest_alloc and exactly one
\* guest_dealloc; the closure of an upcall served during the call issues one
\* guest_dealloc and one guest_alloc more.
C34_CallOrder ==
    CallSucceeded =>
        /\ CallInOrder
        /\ Cardinality(Evs(last.trace, {"guest_alloc"})) = 1
        /\ Cardinality(Evs(last.trace, {"guest_dealloc"})) = 1
        /\ Cardinality(Evs(last.trace, {"upcall:guest_alloc"}))
             = Cardinality(Evs(last.trace, {"import.return"}))
        /\ Cardinality(Evs(last.trace, {"upcall:guest_dealloc"}))
             = Cardinality(Evs(last.trace, {"import"}))

\* A successful call whose guest called the import and got its result.
C34_Witness ==
    /\ CallSucceeded
    /\ Evs(last.trace, {"import.return"}) # {}
    /\ last.res.val = Some(FnResult_Data(Some("7")))

\* The regions of a memory at the place a descriptor names.
At(h, d) == { r \in h : r.ptr = unpack_ptr(d)[1] /\ r.len = unpack_ptr(d)[2] }

\* Thread t's call returns to its caller in this step.
CallEnds(t) == calls[t].at # "idle" /\ calls'[t].at = "idle"

\* The region call wrote its input to, while the guest has not freed it.
InputRegion(t) ==
    IF Evs(last.trace, {"guest.free"}) = {} THEN At(heap, calls[t].din) ELSE {}

UpcallEvents ==
    { "upcall:" \o e : e \in {"memory.read", "guest_dealloc", "get_arg", "native",
                              "guest_alloc", "memory.write"} }
GuestEvents == {"guest.alloc", "guest.free", "import", "import.return", "return"}

\* C32: a call is sequential on its store, in the sync and in the async
\* variant.  At most one thread is inside a call.  From the guest's call of
\* an import to the return of the import, the log has events of the closure
\* only: when the import returns, the input was read and freed, then the
\* native function ran, then the result was allocated and written; while
\* the closure runs, or after it trapped, the guest has done nothing more.
C32_Sequential ==
    /\ Cardinality({ t \in Threads : calls[t].at # "idle" }) <= 1
    /\ \A t \in Threads : calls[t].at = "upcall" =>
         last.trace[Len(last.trace)].ev \in UpcallEvents \cup {"import"}
    /\ LET tr == last.trace
       IN \A b \in Evs(tr, {"import"}) :
            LET ends == { e \in Evs(tr, {"import.return"}) : e > b }
                stop == IF ends = {} THEN Len(tr) + 1
                        ELSE CHOOSE e \in ends : \A f \in ends : e <= f
                inside == { i \in b + 1 .. stop - 1 : tr[i].ev # "trap" }
            IN /\ \A i \in inside : tr[i].ev \in UpcallEvents
               /\ \A i \in b + 1 .. Len(tr) : tr[i].ev = "trap" => i = Len(tr)
               /\ ends # {} =>
                    \E r, f, n, a, w \in inside :
                       /\ r < f /\ f < n /\ n < a /\ a < w
                       /\ tr[r].ev = "upcall:memory.read"
                       /\ tr[f].ev = "upcall:guest_dealloc"
                       /\ tr[n].ev = "upcall:native"
                       /\ tr[a].ev = "upcall:guest_alloc"
                       /\ tr[w].ev = "upcall:memory.write"

\* The guest runs again after an import returned, in the async variant,
\* while the other threads are outside a call.
C32_Witness ==
    /\ variant = "async"
    /\ \E t \in Threads : calls[t].at = "guest"
    /\ Evs(last.trace, {"import.return"}) # {}
    /\ last.op = "resume"

\* ------------------------------------------------ the pool's public operations
\* The module the owner of the pool has built and instantiated itself.
ForeignId == count + 1
ForeignModule(id) == unwrap(instantiate(NewModule(id, "builder"), FALSE).val)

\* The instances that are or were in the pool's hands.
KnownIds == QueuedIds \cup HeldIds \cup ReturningIds \cup leaked

\* pool.return_module(module), called by the owner of the pool on a module
\* of its own: the lock, modules.push_back(module), cvar.notify_one().
return_module ==
    /\ phase = "pool"
    /\ mutex = 0
    /\ ForeignId \notin KnownIds
    /\ modules' = push_back(modules, ForeignModule(ForeignId))
    /\ \E w \in NotifyChoices :
         /\ waiters' = Notified(w)
         /\ pc' = [p \in Threads |-> IF p = w THEN "lease_relock" ELSE pc[p]]
    /\ UNCHANGED << modVars, variant, phase, builderVars, built, mutex, lease, arg, sc, ret,
                    leaked >>

\* Deref that hands out the instance the slot last held.
Deref_stale(l) ==
    [res |-> Ok("module"),
     reached |-> IF is_some(l.module) THEN {unwrap(l.module).id} ELSE {0}]

\* Deref / DerefMut for ModuleLease and AsyncModuleLease:
\* self.module.as_ref().unwrap().  reached: the instance the caller gets.
Deref(l) ==
    IF is_some(l.module)
    THEN [res |-> Ok("module"), reached |-> {unwrap(l.module).id}]
    ELSE [res |-> Err("called Option::unwrap() on a None value"), reached |-> {}]

\* &*lease, lease.call(..): the caller reaches the instance, or panics; the
\* unwinding drops the lease, whose slot is empty.
deref(t) ==
    /\ phase = "pool"
    /\ pc[t] = "idle"
    /\ lease[t].st = "live"
    /\ IF Deref(lease[t]).res.ok
       THEN UNCHANGED << pc, lease >>
       ELSE /\ pc' = [pc EXCEPT ![t] = "panicked"]
            /\ lease' = [lease EXCEPT ![t].st = "dropped"]
    /\ UNCHANGED << modVars, variant, phase, builderVars, built, modules, mutex, waiters,
                    arg, sc, ret, leaked >>

\* The public operations of a pool: lease, try_lease, release, the drop of a
\* lease, the use of a lease, and return_module.
NextPublic ==
    \/ \E t \in Threads : lock(t)
    \/ \E t \in Threads : lease_call(t)
    \/ \E t \in Threads : lease_wait(t)
    \/ \E t \in Threads : lease_pop(t)
    \/ \E t \in Threads : spurious_wake(t)
    \/ \E t \in Threads : try_lease_call(t)
    \/ \E t \in Threads : try_lease_body(t)
    \/ \E t \in Threads : release(t)
    \/ \E t \in Threads : drop_lease(t)
    \/ \E t \in Threads : return_push(t)
    \/ \E t \in Threads : deref(t)
    \/ return_module

SpecPublic == Init /\ [][NextPublic]_vars

\* A return in this step: an instance is pushed to the deque.
Pushed == Len(modules') = Len(modules) + 1

\* The threads this step takes out of cvar.wait.
Woken == { p \in Threads : pc[p] = "lease_wait" /\ pc'[p] # "lease_wait" }

\* C33: a return wakes exactly one blocked lease(): of the k callers blocked
\* when an instance is pushed, one leaves the wait and the other k - 1 are
\* still blocked after the step (none is woken when nobody is blocked); the
\* blocked callers are the threads inside cvar.wait; and a lease() call
\* completes only by taking an instance out of the deque, so one return lets
\* one lease() complete.
C33_WakesOne ==
    [][ /\ Pushed =>
             /\ Cardinality(Woken) = (IF waiters = {} THEN 0 ELSE 1)
             /\ waiters' = waiters \ Woken
             /\ \A p \in Woken : pc'[p] = "lease_relock"
        /\ waiters = { p \in Threads : pc[p] = "lease_wait" }
        /\ \A t \in Threads :
             (pc[t] \in LeasePcs /\ lease'[t].st = "live")
               => Len(modules') = Len(modules) - 1
      ]_vars

\* Two callers were blocked on an empty pool and one instance was returned:
\* one of them is on its way to the deque, the other is still blocked.
C33_Witness ==
    /\ Len(modules) = 1
    /\ mutex = 0
    /\ \E t, u \in Threads :
         /\ t # u
         /\ pc[t] = "lease_relock"
         /\ pc[u] = "lease_wait" /\ u \in waiters

\* C37: the deque of a pool built with count N never holds more than N
\* instances, whatever the callers do with lease, try_lease, release, the
\* drop of a lease and return_module.
C37_AtMostN == Len(modules) <= count

\* The owner returned a module of its own while no instance was leased out:
\* the deque holds N + 1 instances.
C37_Witness ==
    /\ Len(modules) = count + 1
    /\ ForeignId \in QueuedIds
    /\ Holding = {} /\ Returning = {}

\* The instances a caller reaches through its lease.
Reached(t) == IF lease[t].st = "live" THEN Deref(lease[t]).reached ELSE {}

\* C38: after release() the slot of a lease is empty and its dereference
\* panics: it reaches no instance.  A dereference that succeeds reaches an
\* instance that is neither in the deque, nor on its way back to it, nor
\* reached through another lease.  A caller panics in a dereference only on
\* a lease whose slot is empty.
C38_ReleasedUnreachable ==
    /\ [](\A t \in Threads :
            lease[t].rel =>
                /\ lease[t].module = None
                /\ ~Deref(lease[t]).res.ok
                /\ Deref(lease[t]).reached = {})
    /\ [](\A t \in Threads :
            /\ Reached(t) \cap (QueuedIds \cup ReturningIds) = {}
            /\ \A u \in Threads \ {t} : Reached(t) \cap Reached(u) = {})
    /\ [][\A t \in Threads :
            (pc[t] = "idle" /\ pc'[t] = "panicked")
              => lease[t].st = "live" /\ lease[t].module = None]_vars

\* A caller used its lease after release() and panicked, while the other
\* caller holds an instance.
C38_Witness ==
    \E t \in Threads :
        /\ pc[t] = "panicked" /\ lease[t].rel /\ lease[t].pushes = 1
        /\ \E u \in Threads \ {t} : is_some(lease[u].module) /\ Reached(u) # {}

\* ------------------------------------------------ lease() under fair scheduling
\* The callers make finitely many requests: each thread calls lease() once,
\* and releases or drops what it got.
lease_once(t) == lease[t].st = "none" /\ lease_call(t)

NextLive ==
    \/ \E t \in Threads : lock(t)
    \/ \E t \in Threads : lease_once(t)
    \/ \E t \in Threads : lease_wait(t)
    \/ \E t \in Threads : lease_pop(t)
    \/ \E t \in Threads : spurious_wake(t)
    \/ \E t \in Threads : release(t)
    \/ \E t \in Threads : drop_lease(t)
    \/ \E t \in Threads : return_push(t)

\* Scheduling is fair: a thread that can go on does, one that waits for the
\* mutex gets it if it is free again and again, and every lease is released
\* or dropped.  A spurious wakeup is never promised.
Fairness ==
    \A t \in Threads :
        /\ SF_vars(lock(t))
        /\ WF_vars(lease_wait(t))
        /\ WF_vars(lease_pop(t))
        /\ WF_vars(return_push(t))
        /\ WF_vars(release(t) \/ drop_lease(t))

\* ModulePool: the pool of the sync variant.
InitLive == Init /\ variant = "sync"

SpecLive == InitLive /\ [][NextLive]_vars /\ Fairness

\* The threads about to look at the deque: woken or arriving, between the
\* call of lease() and the test of the loop.
AboutToTake == { t \in Threads : pc[t] \in {"lease_lock", "lease_relock", "lease_check"} }

\* C36: no wakeup is lost in ModulePool.  Whenever the deque is non-empty
\* and a thread is blocked in cvar.wait, another thread is about to take
\* the instance (it was notified, or is arriving); and under fair scheduling,
\* with every lease released or dropped, every lease() request returns a
\* lease.
C36_NoLostWakeup ==
    /\ []((variant = "sync" /\ ~is_empty(modules) /\ waiters # {}) => AboutToTake # {})
    /\ \A t \in Threads :
         (variant = "sync" /\ pc[t] \in LeasePcs)
           ~> (pc[t] = "idle" /\ lease[t].st \in {"live", "dropping", "dropped"})

\* Every instance is leased out and another lease() is blocked in cvar.wait.
C36_Witness ==
    /\ variant = "sync"
    /\ is_empty(modules)
    /\ \E t \in waiters : pc[t] = "lease_wait"
    /\ \E u \in Threads : is_some(lease[u].module) /\ pc[u] = "idle"

====
